---- MODULE Spec2Model ----
(***************************************************************************)
(* Speech-scene generator (public/main.js): the spatial placer (findSpot,  *)
(* rectsOverlap), the placement loops of the gallery and sentence passes,  *)
(* the lexicon filter (pool and its predicates), the sampler (sample), the *)
(* image cache (loadImage, drawItem), a whole pass of generate(), from its *)
(* checks to its target list, run to each await in one step, and a second  *)
(* call of generate() while a pass still waits for its images.             *)
(***************************************************************************)
EXTENDS Integers, Sequences, FiniteSets, TLC

VARIABLES
    placed,      \* findSpot's `placed` argument: `placed` / `placedGroups` of a pass
    fs,          \* the activation of findSpot: arguments, loop counter, candidate, return value
    sceneType,   \* sceneTypeEl.value
    nSentences,  \* sentence mode: the clamped count; 0 in gallery modes
    selection,   \* the kinds of the items (gallery) or groups (sentence) still to lay out, in order
    pos,         \* index in selection of the item the placement loop is at
    passPc,      \* where the pass's placement loop stands
    WORDS,       \* the word bank: [nouns, verbs], each a sequence of items
    checked,     \* the checked boxes of #phonemeFilters: records [kind, value]
    criteria,    \* what phonemeChecks(), positionChecks(), syllableChecks() return
    out,         \* the last application of a filter function: [fn, arg, ret]
    smp,         \* the activation of sample: the list, n, the returned array
    count,       \* parseInt(countEl.value, 10), 0 when it is not a number
    chosen,      \* a pass's `selection` (gallery) or `sentences` (sentence mode)
    drawnTargets,\* gallery: the `drawnTargets` array
    tasks,       \* the drawItem activations: [item, rect, promise, pc]
    targets,     \* targetsEl.innerHTML
    errorModal,  \* the error modal: NULL while hidden, else the text showError put there
    imageCache,  \* imageCache: per path, absent or the state of the cached promise
    loads,       \* per path, the number of Image loads issued (img.src = src)
    surface,     \* the canvas: what was painted since the last background fill, in order
    usageLog,    \* localStorage.sceneUsageLog
    trace,       \* the functions the pass has called so far
    earlier      \* the locals of a pass still running when generate() was called again

placeVars == <<placed, fs, sceneType, nSentences, selection, pos, passPc>>
lexVars == <<WORDS, checked, criteria, out, smp>>
runVars == <<count, chosen, drawnTargets, tasks, targets, errorModal,
             imageCache, loads, surface, usageLog, trace, earlier>>
vars == <<placed, fs, sceneType, nSentences, selection, pos, passPc,
          WORDS, checked, criteria, out, smp,
          count, chosen, drawnTargets, tasks, targets, errorModal,
          imageCache, loads, surface, usageLog, trace, earlier>>

----------------------------------------------------------------------------
(* Bounds of the model                                                     *)

\* longest selection (gallery) or accepted sentence list a modelled pass lays out
MaxSelection == 2
\* largest retry budget findSpot runs with: the `tries` of a stand-alone call, and
\* the cap on the budget (200, 500) a pass hands it
MaxTries == 2
\* longest `placed` argument of a stand-alone findSpot call
MaxPlacedArg == 2

\* longest list handed to a stand-alone sample call; n ranges a little past it
MaxPool == 3

----------------------------------------------------------------------------
(* Program constants                                                       *)

CANVAS_W == 2480
CANVAS_H == 3508
\* the pad findSpot hands to rectsOverlap
OVERLAP_PAD == 16
GALLERY_MARGIN == 60
GALLERY_TRIES == 200
SENTENCE_MARGIN == 80
SENTENCE_TRIES == 500
MAX_SENTENCES == 6

\* null (findSpot found nothing) and a present value
NULL == <<>>
Some(v) == <<v>>

Min(a, b) == IF a < b THEN a ELSE b
Max(a, b) == IF a > b THEN a ELSE b

----------------------------------------------------------------------------
(* Strings: a string is the sequence of its characters                     *)

\* String.prototype.toLowerCase, on the letters the model's strings use
LowerChar(c) ==
    CASE c = "S" -> "s"
      [] c = "T" -> "t"
      [] c = "P" -> "p"
      [] c = "C" -> "c"
      [] OTHER   -> c

toLowerCase(str) == [k \in 1..Len(str) |-> LowerChar(str[k])]

startsWith(str, part) ==
    Len(part) <= Len(str) /\ SubSeq(str, 1, Len(part)) = part

\* String.prototype.includes
includes(str, part) ==
    \E from \in 0..(Len(str) - Len(part)) : SubSeq(str, from + 1, from + Len(part)) = part

----------------------------------------------------------------------------
(* The word bank and the selection state                                   *)

\* An item of the bank. hasPhonemes is Array.isArray(item.phonemes); syllables is
\* Number(item.syllables || 0), 0 for an item without the field.
Item(word, position, syllables, hasPhonemes, phonemes) ==
    [word |-> word, position |-> position, syllables |-> syllables,
     hasPhonemes |-> hasPhonemes, phonemes |-> phonemes]

BankNouns ==
    << Item(<<"c","u","p">>,         "final",   1, TRUE,  << <<"p">> >>),
       Item(<<"S","t","a","r">>,     "initial", 1, TRUE,  << <<"S">>, <<"t">> >>),
       Item(<<"t","o","a","s","t">>, "final",   2, FALSE, <<>>),
       Item(<<"s","o","f","a">>,     "initial", 0, TRUE,  << <<"s">> >>),
       Item(<<"t","u","l","i","p">>, "medial",  3, TRUE,  <<>>),
       Item(<<"e","s","c","a","l","a","t","o","r">>, "medial", 4, TRUE, << <<"s">>, <<"k">> >>) >>

BankVerbs ==
    << Item(<<"s","i","p">>,         "initial", 1, TRUE,  << <<"s">> >>),
       Item(<<"S","T","O","P">>,     "final",   1, FALSE, <<>>),
       Item(<<"c","o","m","m","u","n","i","c","a","t","e">>, "medial", 5, TRUE, << <<"P">> >>) >>

BankItems == { BankNouns[k] : k \in 1..Len(BankNouns) } \cup { BankVerbs[k] : k \in 1..Len(BankVerbs) }

\* boxes of #phonemeFilters (lines 269-288): value from PHONEMES_IPA / CLUSTERS_2
CheckBoxes ==
    { [kind |-> "phoneme", value |-> <<"s">>], [kind |-> "phoneme", value |-> <<"p">>],
      [kind |-> "cluster", value |-> <<"s","t">>], [kind |-> "cluster", value |-> <<"s","c">>] }

PhonemeArgs == { <<"s">>, <<"p">> }
Positions == {"initial", "medial", "final"}
SyllableValues == {"1", "2", "3", "4plus"}

NoOut == [fn |-> "none", arg |-> "none", ret |-> FALSE]
SmpIdle == [pc |-> "idle", list |-> <<>>, given |-> <<>>, n |-> 0, ret |-> <<>>]

\* the filter and the sampler at rest
LexIdle ==
    /\ WORDS = [nouns |-> BankNouns, verbs |-> BankVerbs]
    /\ checked = {}
    /\ criteria = [phonemes |-> {}, positions |-> {}, syllables |-> {}]
    /\ out = NoOut
    /\ smp = SmpIdle

\* item.image of the bank's items: the path of the picture, "" for an item without one
ItemImage(item) ==
    CASE item.word = <<"c","u","p">>     -> "images/cup.png"
      [] item.word = <<"s","i","p">>     -> "images/sip.png"
      [] item.word = <<"S","t","a","r">> -> "images/star.png"
      [] item.word = <<"s","o","f","a">> -> "images/sofa.png"
      [] OTHER                           -> ""

ImagePaths == { ItemImage(item) : item \in BankItems } \ {""}

\* targetsEl.innerHTML: nothing yet, an error paragraph (its text and, where the
\* text carries one, the filter summary) or a heading with a list of items
NoTargets == [kind |-> "none", text |-> "", summary |-> NULL, items |-> <<>>]

\* no earlier pass is running
NoEarlier ==
    [passPc |-> "none", sceneType |-> "none", nSentences |-> 0, placed |-> <<>>, pos |-> 1,
     chosen |-> <<>>, drawnTargets |-> <<>>, tasks |-> <<>>, trace |-> <<>>]

\* no pass has run: nothing chosen, drawn, loaded or logged
RunIdle ==
    /\ count = 0
    /\ chosen = <<>>
    /\ drawnTargets = <<>>
    /\ tasks = <<>>
    /\ targets = NoTargets
    /\ errorModal = NULL
    /\ imageCache = [p \in ImagePaths |-> "absent"]
    /\ loads = [p \in ImagePaths |-> 0]
    /\ surface = <<>>
    /\ usageLog = <<>>
    /\ trace = <<>>
    /\ earlier = NoEarlier

\* lines 309-318
getSelectedPhonemeFilters ==
    [phonemes |-> { toLowerCase(cb.value) : cb \in { c \in checked : c.kind = "phoneme" } },
     clusters |-> { toLowerCase(cb.value) : cb \in { c \in checked : c.kind = "cluster" } }]

matchesPhonemeOrClusterOnset(wordEntry, selected) ==
    IF /\ selected.phonemes # {}
       /\ wordEntry.hasPhonemes
       /\ \E k \in 1..Len(wordEntry.phonemes) : toLowerCase(wordEntry.phonemes[k]) \in selected.phonemes
    THEN TRUE
    ELSE IF /\ selected.clusters # {}
            /\ \E cl \in selected.clusters : startsWith(toLowerCase(wordEntry.word), cl)
    THEN TRUE
    ELSE selected.phonemes = {} /\ selected.clusters = {}

\* lines 321-340
matchesPhonemeOrCluster(wordEntry, selected) ==
    IF /\ selected.phonemes # {}
       /\ wordEntry.hasPhonemes
       /\ \E k \in 1..Len(wordEntry.phonemes) : toLowerCase(wordEntry.phonemes[k]) \in selected.phonemes
    THEN TRUE
    ELSE IF /\ selected.clusters # {}
            /\ \E cl \in selected.clusters : includes(toLowerCase(wordEntry.word), cl)
    THEN TRUE
    ELSE selected.phonemes = {} /\ selected.clusters = {}

\* Number(v) of a syllable box's value
ToNumber(v) == CASE v = "1" -> 1 [] v = "2" -> 2 [] v = "3" -> 3 [] OTHER -> 0 - 1

matchesSyllablesAbove4(item, sel) ==
    IF sel = {} THEN TRUE
    ELSE IF "4plus" \in sel /\ item.syllables > 4 THEN TRUE
    ELSE item.syllables \in { ToNumber(v) : v \in sel \ {"4plus"} }

\* lines 575-582
matchesSyllables(item, sel) ==
    IF sel = {} THEN TRUE
    ELSE LET s == item.syllables
             wants4plus == "4plus" \in sel
             nums == { ToNumber(v) : v \in { u \in sel : u # "4plus" } }
         IN  IF wants4plus /\ s >= 4 THEN TRUE ELSE s \in nums

passesPhonemeFiltersPassThrough(item, legacyPhonemes) ==
    matchesPhonemeOrCluster(item, getSelectedPhonemeFilters)

\* lines 591-603
passesPhonemeFilters(item, legacyPhonemes) ==
    LET sel == getSelectedPhonemeFilters IN
    IF sel.phonemes = {} /\ sel.clusters = {}
    THEN IF item.hasPhonemes
         THEN \E k \in 1..Len(item.phonemes) : item.phonemes[k] \in legacyPhonemes
         ELSE TRUE
    ELSE matchesPhonemeOrCluster(item, sel)

poolWithoutSyllables(type, phonemes, positions, syllablesSel) ==
    LET list == IF type = "actions" THEN WORDS.verbs ELSE WORDS.nouns
        Keep(item) == item.position \in positions /\ passesPhonemeFilters(item, phonemes)
    IN  SelectSeq(list, Keep)

\* lines 605-612
pool(type, phonemes, positions, syllablesSel) ==
    LET list == IF type = "actions" THEN WORDS.verbs ELSE WORDS.nouns
        Keep(item) == /\ item.position \in positions
                      /\ matchesSyllables(item, syllablesSel)
                      /\ passesPhonemeFilters(item, phonemes)
    IN  SelectSeq(list, Keep)

----------------------------------------------------------------------------
(* The sampler                                                             *)

\* Array.prototype.slice(start, end): a negative bound counts from the end
slice(arr, start, end) ==
    LET len == Len(arr)
        k == IF start < 0 THEN Max(len + start, 0) ELSE Min(start, len)
        final == IF end < 0 THEN Max(len + end, 0) ELSE Min(end, len)
    IN  IF final > k THEN SubSeq(arr, k + 1, final) ELSE <<>>

\* [...list].sort(() => Math.random() - 0.5): the comparator is inconsistent, so
\* the order is whatever the engine's sort makes of it: some permutation of the copy
Shuffles(list) ==
    { [k \in 1..Len(list) |-> list[p[k]]] : p \in Permutations(1..Len(list)) }

sampleWithReplacement(list, n) ==
    UNION { [1..m -> { list[k] : k \in 1..Len(list) }] : m \in {Min(Max(n, 0), Len(list))} }

\* line 614: the arrays sample(list, n) can return
sample(list, n) == { slice(shuffled, 0, n) : shuffled \in Shuffles(list) }

\* line 614: [...list] is a copy, the argument is left as it was
SampleCall ==
    /\ smp.pc = "call"
    /\ \E ret \in sample(smp.list, smp.n) :
          smp' = [smp EXCEPT !.pc = "done", !.ret = ret]
    /\ UNCHANGED <<WORDS, checked, criteria, out>>
    /\ UNCHANGED placeVars
    /\ UNCHANGED runVars

----------------------------------------------------------------------------
(* Applications of the filter functions to the current selection state     *)

CallMatchesSyllables ==
    /\ out.fn = "none"
    /\ \E item \in BankItems :
          out' = [fn |-> "matchesSyllables", arg |-> item,
                  ret |-> matchesSyllables(item, criteria.syllables)]
    /\ UNCHANGED <<WORDS, checked, criteria, smp>>
    /\ UNCHANGED placeVars
    /\ UNCHANGED runVars

CallMatchesPhonemeOrCluster ==
    /\ out.fn = "none"
    /\ \E item \in BankItems :
          out' = [fn |-> "matchesPhonemeOrCluster", arg |-> item,
                  ret |-> matchesPhonemeOrCluster(item, getSelectedPhonemeFilters)]
    /\ UNCHANGED <<WORDS, checked, criteria, smp>>
    /\ UNCHANGED placeVars
    /\ UNCHANGED runVars

CallPassesPhonemeFilters ==
    /\ out.fn = "none"
    /\ \E item \in BankItems :
          out' = [fn |-> "passesPhonemeFilters", arg |-> item,
                  ret |-> passesPhonemeFilters(item, criteria.phonemes)]
    /\ UNCHANGED <<WORDS, checked, criteria, smp>>
    /\ UNCHANGED placeVars
    /\ UNCHANGED runVars

CallPool ==
    /\ out.fn = "none"
    /\ \E type \in {"i-spy", "actions"} :
          out' = [fn |-> "pool", arg |-> type,
                  ret |-> pool(type, criteria.phonemes, criteria.positions, criteria.syllables)]
    /\ UNCHANGED <<WORDS, checked, criteria, smp>>
    /\ UNCHANGED placeVars
    /\ UNCHANGED runVars


----------------------------------------------------------------------------
(* Geometry helpers                                                        *)

Rect(x, y, w, h) == [x |-> x, y |-> y, w |-> w, h |-> h]

rectsOverlap(a, b, pad) ==
    ~( \/ a.x + a.w + pad < b.x
       \/ a.x > b.x + b.w + pad
       \/ a.y + a.h + pad < b.y
       \/ a.y > b.y + b.h + pad )

\* Math.floor(Math.random() * (hi - lo + 1)) + lo takes every integer of lo..hi;
\* the model draws the two end points.
randBetween(lo, hi) == IF lo <= hi THEN {lo, hi} ELSE {}

FindSpotMaxXNoMargin(w, margin) == CANVAS_W - w

FindSpotMinX(margin) == margin
FindSpotMaxX(w, margin) == CANVAS_W - margin - w
FindSpotMinY(margin) == margin
FindSpotMaxY(h, margin) == CANVAS_H - margin - h

FindSpotDegenerateXOnly(w, h, margin) ==
    FindSpotMaxX(w, margin) < FindSpotMinX(margin)

\* line 462: the early return
FindSpotDegenerate(w, h, margin) ==
    \/ FindSpotMaxX(w, margin) < FindSpotMinX(margin)
    \/ FindSpotMaxY(h, margin) < FindSpotMinY(margin)

FindSpotLoopCondInclusive(i, tries) == i <= tries

\* line 463: the loop condition
FindSpotLoopCond(i, tries) == i < tries

\* rectsOverlap's own default pad (line 451), which findSpot overrides
DEFAULT_PAD == 8

FindSpotAcceptsDefaultPad(candidate, list) ==
    ~\E k \in 1..Len(list) : rectsOverlap(candidate, list[k], DEFAULT_PAD)

\* line 467: !placed.some(r => rectsOverlap(candidate, r, 16))
FindSpotAccepts(candidate, list) ==
    ~\E k \in 1..Len(list) : rectsOverlap(candidate, list[k], OVERLAP_PAD)

\* The x (or y) values a candidate is drawn from, out of minX..maxX (minY..maxY):
\* the ends of the range and, past the rectangle placed last, the last coordinate
\* that still overlaps it under the pad and the first that is clear of it.
LastOf(list) == IF list = <<>> THEN {} ELSE {list[Len(list)]}

FindSpotDrawX(w, margin, list) ==
    { v \in {FindSpotMinX(margin), FindSpotMaxX(w, margin)}
            \cup UNION { {r.x + r.w + OVERLAP_PAD, r.x + r.w + OVERLAP_PAD + 1} : r \in LastOf(list) } :
        FindSpotMinX(margin) <= v /\ v <= FindSpotMaxX(w, margin) }

FindSpotDrawY(h, margin, list) ==
    { v \in {FindSpotMinY(margin), FindSpotMaxY(h, margin)}
            \cup UNION { {r.y + r.h + OVERLAP_PAD, r.y + r.h + OVERLAP_PAD + 1} : r \in LastOf(list) } :
        FindSpotMinY(margin) <= v /\ v <= FindSpotMaxY(h, margin) }

----------------------------------------------------------------------------
(* findSpot(w, h, placed, margin, tries), one loop iteration per step      *)

FsIdle == [pc |-> "idle", w |-> 0, h |-> 0, margin |-> 0, tries |-> 0,
           i |-> 0, drawn |-> 0, candidate |-> NULL, ret |-> NULL]

FsCall(w, h, margin, tries) ==
    [pc |-> "call", w |-> w, h |-> h, margin |-> margin, tries |-> tries,
     i |-> 0, drawn |-> 0, candidate |-> NULL, ret |-> NULL]

\* lines 460-462: the range; a degenerate range returns null
FindSpotEnter ==
    /\ fs.pc = "call"
    /\ fs' = IF FindSpotDegenerate(fs.w, fs.h, fs.margin)
             THEN [fs EXCEPT !.pc = "done", !.ret = NULL]
             ELSE [fs EXCEPT !.pc = "loop", !.i = 0]
    /\ UNCHANGED lexVars
    /\ UNCHANGED runVars
    /\ UNCHANGED <<placed, sceneType, nSentences, selection, pos, passPc>>

\* lines 463-468: one iteration: draw a candidate, return it unless it overlaps
FindSpotTry ==
    /\ fs.pc = "loop"
    /\ FindSpotLoopCond(fs.i, fs.tries)
    /\ \E x \in FindSpotDrawX(fs.w, fs.margin, placed),
          y \in FindSpotDrawY(fs.h, fs.margin, placed) :
          LET candidate == Rect(x, y, fs.w, fs.h) IN
          fs' = IF FindSpotAccepts(candidate, placed)
                THEN [fs EXCEPT !.pc = "done", !.drawn = @ + 1,
                                !.candidate = Some(candidate), !.ret = Some(candidate)]
                ELSE [fs EXCEPT !.i = @ + 1, !.drawn = @ + 1,
                                !.candidate = Some(candidate)]
    /\ UNCHANGED lexVars
    /\ UNCHANGED runVars
    /\ UNCHANGED <<placed, sceneType, nSentences, selection, pos, passPc>>

\* line 469: the loop ran out
FindSpotExhausted ==
    /\ fs.pc = "loop"
    /\ ~FindSpotLoopCond(fs.i, fs.tries)
    /\ fs' = [fs EXCEPT !.pc = "done", !.ret = NULL]
    /\ UNCHANGED lexVars
    /\ UNCHANGED runVars
    /\ UNCHANGED <<placed, sceneType, nSentences, selection, pos, passPc>>

FindSpotStep == FindSpotEnter \/ FindSpotTry \/ FindSpotExhausted

----------------------------------------------------------------------------
(* Sizes of what a pass lays out                                           *)

sentenceBlockMetricsBelow(n) ==
    IF n < 2 THEN [W |-> 520, H |-> 520, gapVerbObj |-> 28, gapCharVerb |-> 80]
    ELSE IF n < 4 THEN [W |-> 420, H |-> 420, gapVerbObj |-> 24, gapCharVerb |-> 72]
    ELSE [W |-> 320, H |-> 320, gapVerbObj |-> 20, gapCharVerb |-> 64]

\* lines 679-683
sentenceBlockMetrics(n) ==
    IF n <= 2 THEN [W |-> 520, H |-> 520, gapVerbObj |-> 28, gapCharVerb |-> 80]
    ELSE IF n <= 4 THEN [W |-> 420, H |-> 420, gapVerbObj |-> 24, gapCharVerb |-> 72]
    ELSE [W |-> 320, H |-> 320, gapVerbObj |-> 20, gapCharVerb |-> 64]

\* lines 684-687
groupSize(metrics) ==
    [Gw |-> metrics.W + metrics.gapCharVerb + metrics.W + metrics.gapVerbObj + metrics.W,
     Gh |-> metrics.H]

\* lines 842-843: the size drawn for a gallery item
GalleryWidths(kind) == IF kind = "verb" THEN randBetween(280, 420) ELSE randBetween(360, 560)
GalleryHeights(kind) == IF kind = "verb" THEN randBetween(180, 260) ELSE randBetween(220, 320)

PassTriesNone(tries) == 0

\* the retry budget of a pass's findSpot call, capped by the model's bound
PassTries(tries) == Min(tries, MaxTries)

Repeat(v, n) == [k \in 1..n |-> v]

\* The selections a pass can reach its placement loop with: n nouns (i-spy), n verbs
\* (actions), the sampled nouns followed by the sampled verbs (mixed, lines 828-830),
\* or the accepted sentences (sentence, line 738).
Selections(type, n) ==
    CASE type = "i-spy"   -> { Repeat("noun", a) : a \in 1..MaxSelection }
      [] type = "actions" -> { Repeat("verb", a) : a \in 1..MaxSelection }
      [] type = "mixed"   -> { Repeat("noun", ab[1]) \o Repeat("verb", ab[2]) :
                                 ab \in { q \in (0..MaxSelection) \X (0..MaxSelection) :
                                            q[1] + q[2] <= MaxSelection } }
      [] OTHER            -> { Repeat("group", a) : a \in 1..Min(n, MaxSelection) }

----------------------------------------------------------------------------
(* The placement loop of a pass: gallery (lines 836-851), sentence (742-769) *)

\* lines 840-844 and 744-745: the next item's size, and the call of findSpot
PlaceBegin ==
    /\ passPc = "loop"
    /\ pos <= Len(selection)
    /\ IF sceneType = "sentence"
       THEN LET g == groupSize(sentenceBlockMetrics(nSentences)) IN
            fs' = FsCall(g.Gw, g.Gh, SENTENCE_MARGIN, PassTries(SENTENCE_TRIES))
       ELSE \E W \in GalleryWidths(selection[pos]), H \in GalleryHeights(selection[pos]) :
            fs' = FsCall(W, H, GALLERY_MARGIN, PassTries(GALLERY_TRIES))
    /\ passPc' = "placing"
    /\ UNCHANGED lexVars
    /\ UNCHANGED runVars
    /\ UNCHANGED <<placed, sceneType, nSentences, selection, pos>>

\* line 847 (gallery), line 747 (sentence)
PlacedAfterPush(list, spot, w, h) == Append(list, Rect(spot.x, spot.y, w, h))

\* lines 845-847 and 746-747: a spot was found
PlacePush ==
    /\ passPc = "placing"
    /\ fs.pc = "done"
    /\ fs.ret # NULL
    /\ placed' = PlacedAfterPush(placed, fs.ret[1], fs.w, fs.h)
    /\ pos' = pos + 1
    /\ passPc' = "loop"
    /\ fs' = FsIdle
    /\ UNCHANGED lexVars
    /\ UNCHANGED runVars
    /\ UNCHANGED <<sceneType, nSentences, selection>>

\* lines 845 and 746: `if (!spot) continue`
PlaceSkip ==
    /\ passPc = "placing"
    /\ fs.pc = "done"
    /\ fs.ret = NULL
    /\ pos' = pos + 1
    /\ passPc' = "loop"
    /\ fs' = FsIdle
    /\ UNCHANGED lexVars
    /\ UNCHANGED runVars
    /\ UNCHANGED <<placed, sceneType, nSentences, selection>>

\* the loop is over
PlaceEnd ==
    /\ passPc = "loop"
    /\ pos > Len(selection)
    /\ passPc' = "done"
    /\ UNCHANGED lexVars
    /\ UNCHANGED runVars
    /\ UNCHANGED <<placed, fs, sceneType, nSentences, selection, pos>>

----------------------------------------------------------------------------
(* Specification of a pass's placement loop                                *)

SceneTypes == {"i-spy", "actions", "mixed", "sentence"}

Init ==
    /\ sceneType \in SceneTypes
    /\ nSentences \in IF sceneType = "sentence" THEN 1..MAX_SENTENCES ELSE {0}
    /\ selection \in Selections(sceneType, nSentences)
    /\ placed = <<>>
    /\ fs = FsIdle
    /\ pos = 1
    /\ passPc = "loop"
    /\ LexIdle
    /\ RunIdle

Next ==
    \/ PlaceBegin
    \/ FindSpotEnter
    \/ FindSpotTry
    \/ FindSpotExhausted
    \/ PlacePush
    \/ PlaceSkip
    \/ PlaceEnd

Spec == Init /\ [][Next]_vars

----------------------------------------------------------------------------
(* Specification of findSpot alone, over drawn arguments                   *)

\* widths and heights handed to findSpot: the gallery extremes, the sentence group
\* sizes, and sizes wider or taller than the canvas leaves room for
FsArgWidths == {280, 560, 1668, 2360, 2361}
FsArgHeights == {180, 520, 3388, 3389}
FsArgMargins == {GALLERY_MARGIN, SENTENCE_MARGIN}
FsArgRects == { Rect(60, 60, 560, 320), Rect(1860, 3128, 560, 320),
                Rect(0, 0, CANVAS_W, CANVAS_H) }
FsArgPlaced == UNION { [1..m -> FsArgRects] : m \in 0..MaxPlacedArg }

InitFindSpot ==
    /\ placed \in FsArgPlaced
    /\ \E w \in FsArgWidths, h \in FsArgHeights, margin \in FsArgMargins, tries \in 0..MaxTries :
          fs = FsCall(w, h, margin, tries)
    /\ sceneType = "none"
    /\ nSentences = 0
    /\ selection = <<>>
    /\ pos = 1
    /\ passPc = "none"
    /\ LexIdle
    /\ RunIdle

NextFindSpot == FindSpotEnter \/ FindSpotTry \/ FindSpotExhausted

SpecFindSpot == InitFindSpot /\ [][NextFindSpot]_vars

----------------------------------------------------------------------------
(* Specification of the placer: passes and stand-alone findSpot calls      *)

InitPlacer == Init \/ InitFindSpot

SpecPlacer == InitPlacer /\ [][Next]_vars

----------------------------------------------------------------------------
(* Specification of the lexicon filter, over drawn selections             *)

PlaceIdle ==
    /\ placed = <<>>
    /\ fs = FsIdle
    /\ sceneType = "none"
    /\ nSentences = 0
    /\ selection = <<>>
    /\ pos = 1
    /\ passPc = "none"

InitFilter ==
    /\ PlaceIdle
    /\ RunIdle
    /\ WORDS = [nouns |-> BankNouns, verbs |-> BankVerbs]
    /\ checked \in SUBSET CheckBoxes
    /\ criteria \in [phonemes : SUBSET PhonemeArgs, positions : SUBSET Positions,
                     syllables : SUBSET SyllableValues]
    /\ out = NoOut
    /\ smp = SmpIdle

NextFilter ==
    \/ CallMatchesSyllables
    \/ CallMatchesPhonemeOrCluster
    \/ CallPassesPhonemeFilters
    \/ CallPool

SpecFilter == InitFilter /\ [][NextFilter]_vars

----------------------------------------------------------------------------
(* Specification of the sampler, over drawn lists and counts               *)

\* a list of k elements: element k is the object at index k, carrying a word
SampleWords == {"cup", "sip"}
SampleLists ==
    UNION { { [k \in 1..m |-> [ref |-> k, word |-> w[k]]] : w \in [1..m -> SampleWords] } :
            m \in 0..MaxPool }

InitSample ==
    /\ PlaceIdle
    /\ RunIdle
    /\ WORDS = [nouns |-> BankNouns, verbs |-> BankVerbs]
    /\ checked = {}
    /\ criteria = [phonemes |-> {}, positions |-> {}, syllables |-> {}]
    /\ out = NoOut
    /\ \E list \in SampleLists, n \in (0 - MaxPool - 1)..(MaxPool + 1) :
          smp = [pc |-> "call", list |-> list, given |-> list, n |-> n, ret |-> <<>>]

NextSample == SampleCall

SpecSample == InitSample /\ [][NextSample]_vars

----------------------------------------------------------------------------
(* The selection of a gallery pass (lines 787, 826-834)                    *)

\* line 787: Math.max(1, Math.min(24, parseInt(countEl.value, 10) || 12))
galleryCount(c) == Max(1, Min(24, IF c = 0 THEN 12 ELSE c))

nounQuotaFloor(n) == (6 * n) \div 10

\* lines 828-829: Math.ceil(n * 0.6) and Math.floor(n * 0.4). For n in 1..24 the
\* double products n * 0.6 and n * 0.4 lie on the same side of every integer as
\* 6n/10 and 4n/10 do, so the quotas are those of the exact quotients.
nounQuota(n) == (6 * n + 9) \div 10
verbQuota(n) == (4 * n) \div 10

\* .map(x => ({ ...x, kind })): the sampled items, each with its kind
WithKind(list, kind) == [k \in 1..Len(list) |-> [item |-> list[k], kind |-> kind]]

\* lines 826-834: the selections a gallery pass can draw
gallerySelection(type, n, phonSel, posSel, sylSel) ==
    IF type = "mixed"
    THEN { WithKind(nouns, "noun") \o WithKind(verbs, "verb") :
             nouns \in sample(pool("i-spy", phonSel, posSel, sylSel), nounQuota(n)),
             verbs \in sample(pool("actions", phonSel, posSel, sylSel), verbQuota(n)) }
    ELSE { WithKind(list, IF type = "actions" THEN "verb" ELSE "noun") :
             list \in sample(pool(type, phonSel, posSel, sylSel), n) }

\* The states of the selection controls a pass is run in: the checked boxes of
\* #phonemeFilters, whose values phonemeChecks() returns together with those of
\* any checked phoneme box outside it, and the position and syllable boxes.
DomChecked ==
    { {},
      { [kind |-> "phoneme", value |-> <<"s">>] },
      { [kind |-> "phoneme", value |-> <<"p">>] },
      { [kind |-> "phoneme", value |-> <<"s">>], [kind |-> "phoneme", value |-> <<"p">>],
        [kind |-> "cluster", value |-> <<"s","t">>] } }
DomLegacy == { {}, { <<"s">> } }
DomPositions == { {}, Positions, {"final"}, {"medial"}, {"initial", "final"} }
DomSyllables == { {}, {"1"}, {"1", "2"} }

DomCriteria(boxes, legacy, positions, syllables) ==
    [phonemes |-> { b.value : b \in boxes } \cup legacy,
     positions |-> positions, syllables |-> syllables]

GalleryTypes == {"i-spy", "actions", "mixed"}

CallGallerySelection ==
    /\ out.fn = "none"
    /\ \E type \in GalleryTypes, c \in 1..24 :
          \E sel \in gallerySelection(type, galleryCount(c), criteria.phonemes,
                                      criteria.positions, criteria.syllables) :
             out' = [fn |-> "gallerySelection", arg |-> [type |-> type, n |-> galleryCount(c)],
                     ret |-> sel]
    /\ UNCHANGED <<WORDS, checked, criteria, smp>>
    /\ UNCHANGED placeVars
    /\ UNCHANGED runVars

InitSelect ==
    /\ PlaceIdle
    /\ RunIdle
    /\ WORDS = [nouns |-> BankNouns, verbs |-> BankVerbs]
    /\ checked \in DomChecked
    /\ \E legacy \in DomLegacy, positions \in DomPositions, syllables \in DomSyllables :
          criteria = DomCriteria(checked, legacy, positions, syllables)
    /\ out = NoOut
    /\ smp = SmpIdle

NextSelect == CallGallerySelection

SpecSelect == InitSelect /\ [][NextSelect]_vars

----------------------------------------------------------------------------
(* The image cache (lines 508-520) and drawItem (lines 564-572)            *)

\* most drawItem calls made by a stand-alone caller
MaxDrawCalls == 3

loadImageUncached(src, cache, issued) ==
    IF src = ""
    THEN [promise |-> "", cache |-> cache, loads |-> issued]
    ELSE [promise |-> src, cache |-> [cache EXCEPT ![src] = "pending"],
          loads |-> [issued EXCEPT ![src] = @ + 1]]

\* lines 509-520. The promise cached for a path is named by the path; "" names the
\* Promise.resolve(null) a falsy src gets. A miss creates the Image, sets its src
\* (the load is issued) and caches the pending promise.
loadImage(src, cache, issued) ==
    IF src = ""
    THEN [promise |-> "", cache |-> cache, loads |-> issued]
    ELSE IF cache[src] # "absent"
    THEN [promise |-> src, cache |-> cache, loads |-> issued]
    ELSE [promise |-> src, cache |-> [cache EXCEPT ![src] = "pending"],
          loads |-> [issued EXCEPT ![src] = @ + 1]]

\* what a promise of loadImage holds: "pending", "image" (resolved with the Image)
\* or "null" (resolved with null)
PromiseState(promise, cache) == IF promise = "" THEN "null" ELSE cache[promise]

\* line 565, up to the await: a drawItem activation waiting for its image
DrawItemTask(item, rect, promise) ==
    [item |-> item, rect |-> rect, promise |-> promise, pc |-> "await", img |-> "none"]

\* a continuation is queued: the promise some waiting drawItem awaits is settled
ReadyTasks == { k \in 1..Len(tasks) :
                  tasks[k].pc = "await" /\ PromiseState(tasks[k].promise, imageCache) # "pending" }

\* what was painted: the op, whose cell it is, its word and its rectangle
Paint(op, role, word, rect) == [op |-> op, role |-> role, word |-> word, rect |-> rect]

\* lines 566-570: the image fitted into the rectangle, or the placeholder block
DrawItemPaint(task, img) ==
    Paint(IF img = "image" THEN "image" ELSE "block", "item", task.item.word, task.rect)

PromiseAllSkipped(list) == TRUE

\* line 852: Promise.all(tasks) is fulfilled once every drawItem has returned
PromiseAll(list) == \A k \in 1..Len(list) : list[k].pc = "done"

\* the promise a sentence pass is waiting on
AwaitedImage == IF passPc = "awaitVerb" THEN ItemImage(chosen[pos].verb)
                ELSE ItemImage(chosen[pos].object)

\* the same for the pass that was running when generate() was called again
EarlierReadyTasks ==
    { k \in 1..Len(earlier.tasks) :
        /\ earlier.tasks[k].pc = "await"
        /\ PromiseState(earlier.tasks[k].promise, imageCache) # "pending" }

EarlierAwaitedImage ==
    IF earlier.passPc = "awaitVerb" THEN ItemImage(earlier.chosen[earlier.pos].verb)
    ELSE ItemImage(earlier.chosen[earlier.pos].object)

EarlierQueued ==
    \/ EarlierReadyTasks # {}
    \/ earlier.passPc = "awaitAll" /\ PromiseAll(earlier.tasks)
    \/ /\ earlier.passPc \in {"awaitVerb", "awaitObject"}
       /\ PromiseState(EarlierAwaitedImage, imageCache) # "pending"

\* a continuation is queued: of a drawItem, of a pass after drawBackground, after
\* Promise.all, or after the image it awaits. Queued continuations run before the
\* next event is handled.
ContinuationQueued ==
    \/ ReadyTasks # {}
    \/ EarlierQueued
    \/ passPc = "start"
    \/ passPc = "awaitAll" /\ PromiseAll(tasks)
    \/ passPc \in {"awaitVerb", "awaitObject"} /\ PromiseState(AwaitedImage, imageCache) # "pending"

\* line 514: img.onload. Events wait for the queued continuations to run.
ImageOnload ==
    /\ ~ContinuationQueued
    /\ \E src \in ImagePaths :
          /\ imageCache[src] = "pending"
          /\ imageCache' = [imageCache EXCEPT ![src] = "image"]
    /\ UNCHANGED <<count, chosen, drawnTargets, tasks, targets, errorModal, loads,
                   surface, usageLog, trace>>
    /\ UNCHANGED lexVars
    /\ UNCHANGED placeVars
    /\ UNCHANGED earlier

\* line 515: img.onerror
ImageOnerror ==
    /\ ~ContinuationQueued
    /\ \E src \in ImagePaths :
          /\ imageCache[src] = "pending"
          /\ imageCache' = [imageCache EXCEPT ![src] = "null"]
    /\ UNCHANGED <<count, chosen, drawnTargets, tasks, targets, errorModal, loads,
                   surface, usageLog, trace>>
    /\ UNCHANGED lexVars
    /\ UNCHANGED placeVars
    /\ UNCHANGED earlier

\* lines 565-572 after the await: the continuation queued first runs first
DrawItemResume ==
    /\ ReadyTasks # {}
    /\ LET k == CHOOSE r \in ReadyTasks : \A q \in ReadyTasks : r <= q
           img == PromiseState(tasks[k].promise, imageCache)
       IN  /\ tasks' = [tasks EXCEPT ![k].pc = "done", ![k].img = img]
           /\ surface' = Append(surface, DrawItemPaint(tasks[k], img))
    /\ UNCHANGED <<count, chosen, drawnTargets, targets, errorModal, imageCache, loads,
                   usageLog, trace>>
    /\ UNCHANGED lexVars
    /\ UNCHANGED placeVars
    /\ UNCHANGED earlier

\* the items a stand-alone caller draws: two with a picture, one without
DrawnItems == { item \in BankItems : item.word \in { <<"c","u","p">>, <<"s","i","p">>,
                                                     <<"t","o","a","s","t">> } }

\* lines 564-565: a call of drawItem, up to its await
DrawItemCall ==
    /\ passPc = "none"
    /\ Len(tasks) < MaxDrawCalls
    /\ \E item \in DrawnItems :
          LET got == loadImage(ItemImage(item), imageCache, loads) IN
          /\ tasks' = Append(tasks, DrawItemTask(item, Rect(60, 60, 360, 220), got.promise))
          /\ imageCache' = got.cache
          /\ loads' = got.loads
    /\ UNCHANGED <<count, chosen, drawnTargets, targets, errorModal, surface, usageLog, trace>>
    /\ UNCHANGED lexVars
    /\ UNCHANGED placeVars
    /\ UNCHANGED earlier

InitImages ==
    /\ PlaceIdle
    /\ RunIdle
    /\ LexIdle

NextImages ==
    \/ DrawItemCall
    \/ ImageOnload
    \/ ImageOnerror
    \/ DrawItemResume

SpecImages == InitImages /\ [][NextImages]_vars

----------------------------------------------------------------------------
(* findSpot as a function: the values a call can return                    *)

RECURSIVE FindSpotFrom(_, _, _, _, _, _)
\* lines 463-469 from iteration i on: a drawn candidate that is clear is returned,
\* one that overlaps sends the loop to iteration i + 1, the exhausted loop returns null
FindSpotFrom(i, w, h, list, margin, tries) ==
    IF ~FindSpotLoopCond(i, tries)
    THEN {NULL}
    ELSE LET drawn == { Rect(x, y, w, h) : x \in FindSpotDrawX(w, margin, list),
                                          y \in FindSpotDrawY(h, margin, list) }
             clear == { c \in drawn : FindSpotAccepts(c, list) }
         IN  { Some(c) : c \in clear }
                \cup (IF clear # drawn THEN FindSpotFrom(i + 1, w, h, list, margin, tries) ELSE {})

\* lines 459-470
findSpot(w, h, list, margin, tries) ==
    IF FindSpotDegenerate(w, h, margin) THEN {NULL} ELSE FindSpotFrom(0, w, h, list, margin, tries)

----------------------------------------------------------------------------
(* The messages of a pass                                                  *)

\* lines 380-386: the text of filterSummary(), by its three parts
filterSummary ==
    [phonemes |-> IF criteria.phonemes = {} THEN { <<"a","n","y">> } ELSE criteria.phonemes,
     positions |-> criteria.positions,
     syllables |-> IF criteria.syllables = {} THEN {"any"}
                   ELSE { IF v = "4plus" THEN "4+" ELSE v : v \in criteria.syllables }]

ErrorMessage(text, summary) == [text |-> text, summary |-> summary]

\* targetsEl.innerHTML = `<p class="error">${msg}</p>`
ErrorTargets(msg) == [kind |-> "error", text |-> msg.text, summary |-> msg.summary, items |-> <<>>]

preconditionErrorPhonemeOnly(phonSel, posSel) ==
    IF phonSel = {} THEN Some(ErrorMessage("Select at least one phoneme.", NULL)) ELSE NULL

\* lines 791-796 and 698-703: the message of the precondition check, null when it passes
preconditionError(phonSel, posSel) ==
    IF phonSel = {} \/ posSel = {}
    THEN Some(ErrorMessage(IF phonSel = {} THEN "Select at least one phoneme."
                                           ELSE "Select at least one position.", NULL))
    ELSE NULL

emptyPoolErrorMixedOnly(type, nounsPool, verbsPool) ==
    IF type = "mixed" /\ nounsPool = <<>> /\ verbsPool = <<>>
    THEN Some(ErrorMessage("No NOUNS or VERBS match your filters", Some(filterSummary)))
    ELSE NULL

emptyPoolErrorEitherKind(type, nounsPool, verbsPool) ==
    IF type = "i-spy" /\ nounsPool = <<>>
    THEN Some(ErrorMessage("No NOUNS match your filters", Some(filterSummary)))
    ELSE IF type = "actions" /\ verbsPool = <<>>
    THEN Some(ErrorMessage("No VERBS match your filters", Some(filterSummary)))
    ELSE IF type = "mixed" /\ (nounsPool = <<>> \/ verbsPool = <<>>)
    THEN Some(ErrorMessage("No NOUNS or VERBS match your filters", Some(filterSummary)))
    ELSE NULL

\* lines 798-824: the message of the empty-pool check of a gallery pass, null when
\* it passes. nounsPool is the noun pool (i-spy, mixed), verbsPool the verb pool
\* (actions, mixed).
emptyPoolError(type, nounsPool, verbsPool) ==
    IF type = "i-spy" /\ nounsPool = <<>>
    THEN Some(ErrorMessage("No NOUNS match your filters", Some(filterSummary)))
    ELSE IF type = "actions" /\ verbsPool = <<>>
    THEN Some(ErrorMessage("No VERBS match your filters", Some(filterSummary)))
    ELSE IF type = "mixed" /\ nounsPool = <<>> /\ verbsPool = <<>>
    THEN Some(ErrorMessage("No NOUNS or VERBS match your filters", Some(filterSummary)))
    ELSE NULL

galleryTargetsAlwaysList(sel, drawn) ==
    [kind |-> "targets", text |-> "Targets in this picture:", summary |-> NULL, items |-> drawn]

\* lines 854-856
galleryTargets(sel, drawn) ==
    IF Len(sel) # 0
    THEN [kind |-> "targets", text |-> "Targets in this picture:", summary |-> NULL,
          items |-> drawn]
    ELSE ErrorTargets(ErrorMessage("No items matched your selections.", NULL))

\* lines 771-776
sentenceTargets(sentences, placedGroups) ==
    IF Len(placedGroups) # 0
    THEN [kind |-> "sentences", text |-> "Sentences on this page", summary |-> NULL,
          items |-> [k \in 1..Len(slice(sentences, 0, Len(placedGroups))) |->
                        [verb |-> sentences[k].verb.word, object |-> sentences[k].object.word]]]
    ELSE ErrorTargets(ErrorMessage("Couldn't fit any sentences.", NULL))

----------------------------------------------------------------------------
(* A gallery pass (generateIspyOrActionsOrMixed, lines 780-857)            *)

\* the locals the placement loop of lines 836-851 carries from item to item
GalleryLoopStart ==
    [placed |-> <<>>, drawnTargets |-> <<>>, tasks |-> <<>>, cache |-> imageCache, loads |-> loads]

\* lines 847-850: the item got a spot
GalleryPush(acc, entry, spot, W, H) ==
    LET got == loadImage(ItemImage(entry.item), acc.cache, acc.loads) IN
    [placed |-> PlacedAfterPush(acc.placed, spot, W, H),
     drawnTargets |-> Append(acc.drawnTargets, [word |-> entry.item.word, kind |-> entry.kind]),
     tasks |-> Append(acc.tasks, DrawItemTask(entry.item, spot, got.promise)),
     cache |-> got.cache, loads |-> got.loads]

RECURSIVE GalleryLoop(_, _, _)
\* lines 840-851 from item k on: the locals the loop can end with
GalleryLoop(sel, k, acc) ==
    IF k > Len(sel)
    THEN {acc}
    ELSE UNION { UNION { IF spot = NULL
                         THEN GalleryLoop(sel, k + 1, acc)
                         ELSE GalleryLoop(sel, k + 1, GalleryPush(acc, sel[k], spot[1], wh[1], wh[2])) :
                           spot \in findSpot(wh[1], wh[2], acc.placed, GALLERY_MARGIN,
                                             PassTries(GALLERY_TRIES)) } :
                 wh \in GalleryWidths(sel[k].kind) \X GalleryHeights(sel[k].kind) }

\* the calls of the loop, one findSpot per selected item
GalleryLoopTrace(sel) == [k \in 1..Len(sel) |-> "findSpot"]

\* the pool calls of the empty-pool check (lines 799-824) and the pool and sample
\* calls of the selection (lines 826-834)
PoolCall(type) == IF type = "actions" THEN "pool:actions" ELSE "pool:i-spy"
GalleryCheckTrace(type) ==
    IF type = "mixed" THEN <<PoolCall("i-spy"), PoolCall("actions")>> ELSE <<PoolCall(type)>>
GallerySelectionTrace(type) ==
    IF type = "mixed" THEN <<PoolCall("i-spy"), "sample", PoolCall("actions"), "sample">>
    ELSE <<PoolCall(type), "sample">>

\* showError(msg); targetsEl.innerHTML = `<p class="error">...`; return
PassFails(msg, called) ==
    /\ errorModal' = Some(msg)
    /\ targets' = ErrorTargets(msg)
    /\ trace' = called
    /\ passPc' = "done"
    /\ UNCHANGED <<placed, fs, selection, pos, chosen, drawnTargets, tasks,
                   imageCache, loads, surface, usageLog>>

\* lines 535-541 (plain white for every scene type that is not a sentence scene
\* with backgrounds on): the fill wipes the canvas; the caller's await then yields
DrawBackground ==
    /\ passPc = "generate"
    /\ surface' = << Paint("fill", "background", <<>>, Rect(0, 0, CANVAS_W, CANVAS_H)) >>
    /\ passPc' = "start"
    /\ UNCHANGED <<placed, fs, sceneType, nSentences, selection, pos>>
    /\ UNCHANGED <<count, chosen, drawnTargets, tasks, targets, errorModal,
                   imageCache, loads, usageLog, trace>>
    /\ UNCHANGED lexVars
    /\ UNCHANGED earlier

\* lines 783-852, from the return of drawBackground to the await of Promise.all:
\* the checks, the selection and the whole placement loop run without a break
GalleryRun ==
    /\ passPc = "start"
    /\ sceneType \in GalleryTypes
    /\ LET phonSel == criteria.phonemes
           posSel == criteria.positions
           sylSel == criteria.syllables
           n == galleryCount(count)
           pre == preconditionError(phonSel, posSel)
           empty == emptyPoolError(sceneType, pool("i-spy", phonSel, posSel, sylSel),
                                   pool("actions", phonSel, posSel, sylSel))
       IN  IF pre # NULL
           THEN PassFails(pre[1], trace)
           ELSE IF empty # NULL
           THEN PassFails(empty[1], trace \o GalleryCheckTrace(sceneType))
           ELSE \E sel \in gallerySelection(sceneType, n, phonSel, posSel, sylSel) :
                   \E acc \in GalleryLoop(sel, 1, GalleryLoopStart) :
                      /\ chosen' = sel
                      /\ selection' = [k \in 1..Len(sel) |-> sel[k].kind]
                      /\ pos' = Len(sel) + 1
                      /\ placed' = acc.placed
                      /\ drawnTargets' = acc.drawnTargets
                      /\ tasks' = acc.tasks
                      /\ imageCache' = acc.cache
                      /\ loads' = acc.loads
                      /\ trace' = trace \o GalleryCheckTrace(sceneType)
                                        \o GallerySelectionTrace(sceneType) \o GalleryLoopTrace(sel)
                      /\ passPc' = "awaitAll"
                      /\ UNCHANGED <<fs, targets, errorModal, surface, usageLog>>
    /\ UNCHANGED <<sceneType, nSentences, count>>
    /\ UNCHANGED lexVars
    /\ UNCHANGED earlier

\* lines 854-856, once Promise.all(tasks) is fulfilled
GalleryFinish ==
    /\ passPc = "awaitAll"
    /\ PromiseAll(tasks)
    /\ targets' = galleryTargets(chosen, drawnTargets)
    /\ passPc' = "done"
    /\ UNCHANGED <<placed, fs, sceneType, nSentences, selection, pos>>
    /\ UNCHANGED <<count, chosen, drawnTargets, tasks, errorModal,
                   imageCache, loads, surface, usageLog, trace>>
    /\ UNCHANGED lexVars
    /\ UNCHANGED earlier

----------------------------------------------------------------------------
(* A sentence pass (generateSentenceScene, lines 690-777)                  *)

\* line 705: Math.max(1, Math.min(6, parseInt(countEl.value, 10) || 1))
sentenceCount(c) == Max(1, Min(MAX_SENTENCES, IF c = 0 THEN 1 ELSE c))

\* lines 656-665
VERB_OBJECT_SUGGESTIONS(word) ==
    CASE word = <<"s","i","p">> ->
           << <<"c","u","p">>, <<"m","u","g">>, <<"j","u","i","c","e">> >>
      [] word = <<"s","l","i","c","e">> ->
           << <<"s","a","n","d","w","i","c","h">>, <<"b","r","e","a","d">>, <<"c","a","k","e">> >>
      [] word = <<"s","t","i","r">> ->
           << <<"s","o","u","p">>, <<"b","o","w","l">>, <<"s","p","o","o","n">> >>
      [] word = <<"s","i","t">> ->
           << <<"c","h","a","i","r">>, <<"b","e","n","c","h">> >>
      [] word = <<"s","k","a","t","e">> ->
           << <<"s","k","a","t","e","b","o","a","r","d">> >>
      [] word = <<"s","i","n","g">> ->
           << <<"m","i","c","r","o","p","h","o","n","e">> >>
      [] word = <<"s","e","e">> ->
           << <<"g","l","a","s","s","e","s">>, <<"b","i","n","o","c","u","l","a","r","s">> >>
      [] word = <<"s","m","i","l","e">> ->
           << <<"m","i","r","r","o","r">> >>
      [] OTHER -> <<>>

\* lines 666-670: the first noun of the bank spelt like word, case aside
findNounByWord(word) ==
    IF word = <<>>
    THEN NULL
    ELSE LET target == toLowerCase(word)
             hits == { k \in 1..Len(WORDS.nouns) : toLowerCase(WORDS.nouns[k].word) = target }
         IN  IF hits = {} THEN NULL
             ELSE Some(WORDS.nouns[CHOOSE k \in hits : \A j \in hits : k <= j])

suggestedObjectUnfiltered(verb, posSel, sylSel) ==
    LET suggestions == VERB_OBJECT_SUGGESTIONS(toLowerCase(verb.word))
        found == { k \in 1..Len(suggestions) : findNounByWord(suggestions[k]) # NULL }
    IN  IF found = {} THEN NULL
        ELSE findNounByWord(suggestions[CHOOSE k \in found : \A j \in found : k <= j])

\* lines 721-726: the first suggested word whose noun passes the syllable and the
\* position check, null when there is none
suggestedObject(verb, posSel, sylSel) ==
    LET suggestions == VERB_OBJECT_SUGGESTIONS(toLowerCase(verb.word))
        Fits(candidate) == /\ candidate # NULL
                           /\ matchesSyllables(candidate[1], sylSel)
                           /\ candidate[1].position \in posSel
        found == { k \in 1..Len(suggestions) : Fits(findNounByWord(suggestions[k])) }
    IN  IF found = {} THEN NULL
        ELSE findNounByWord(suggestions[CHOOSE k \in found : \A j \in found : k <= j])

slotAfterContinue(s, n) == s + 1

\* line 733: `break` leaves the slot loop, as if s had reached nSentences
slotAfterBreak(s, n) == n

RECURSIVE buildSentences(_, _, _)
\* lines 711-739 from slot s on: the sentences, the error shown last and the calls
\* made, for every way the draws can fall
buildSentences(s, n, acc) ==
    IF s >= n
    THEN {acc}
    ELSE LET phonSel == criteria.phonemes
             posSel == criteria.positions
             sylSel == criteria.syllables
             verbPool == pool("actions", phonSel, posSel, sylSel)
             nounPool == pool("i-spy", phonSel, posSel, sylSel)
         IN  IF verbPool = <<>>
             THEN { [acc EXCEPT !.error = Some(ErrorMessage("No VERBS match your filters",
                                                            Some(filterSummary))),
                                !.trace = @ \o <<PoolCall("actions")>>] }
             ELSE UNION {
                    LET verb == picked[1]
                        object == suggestedObject(verb, posSel, sylSel)
                    IN  IF object # NULL
                        THEN buildSentences(s + 1, n,
                                [acc EXCEPT !.sentences = Append(@, [verb |-> verb, object |-> object[1]]),
                                            !.trace = @ \o <<PoolCall("actions"), "sample">>])
                        ELSE IF nounPool = <<>>
                        THEN buildSentences(slotAfterBreak(s, n), n,
                                [acc EXCEPT !.error = Some(ErrorMessage("No NOUNS match your filters",
                                                                        Some(filterSummary))),
                                            !.trace = @ \o <<PoolCall("actions"), "sample", PoolCall("i-spy")>>])
                        ELSE UNION { buildSentences(s + 1, n,
                                        [acc EXCEPT !.sentences = Append(@, [verb |-> verb, object |-> o[1]]),
                                                    !.trace = @ \o <<PoolCall("actions"), "sample",
                                                                    PoolCall("i-spy"), "sample">>]) :
                                       o \in sample(nounPool, 1) } :
                    picked \in sample(verbPool, 1) }

\* lines 749-752: the three cells of a group at spot
SentenceCells(spot, metrics) ==
    [character |-> Rect(spot.x, spot.y, metrics.W, metrics.H),
     verb |-> Rect(spot.x + metrics.W + metrics.gapCharVerb, spot.y, metrics.W, metrics.H),
     object |-> Rect(spot.x + metrics.W + metrics.gapCharVerb + metrics.W + metrics.gapVerbObj,
                     spot.y, metrics.W, metrics.H)]

RECURSIVE SentenceAdvance(_, _, _, _)
\* lines 744-747 from group k on, up to the group that gets a spot: its index
\* (past the last when none does), the placed list and the findSpot calls made
SentenceAdvance(sentences, n, k, list) ==
    IF k > Len(sentences)
    THEN { [pos |-> k, placed |-> list, calls |-> <<>>] }
    ELSE LET g == groupSize(sentenceBlockMetrics(n)) IN
         UNION { IF spot = NULL
                 THEN { [a EXCEPT !.calls = <<"findSpot">> \o @] :
                          a \in SentenceAdvance(sentences, n, k + 1, list) }
                 ELSE { [pos |-> k, placed |-> Append(list, spot[1]), calls |-> <<"findSpot">>] } :
                   spot \in findSpot(g.Gw, g.Gh, list, SENTENCE_MARGIN, PassTries(SENTENCE_TRIES)) }

\* lines 744-757 and 771-776: the placement loop runs on from group k to its next
\* await (the verb image of the group that got a spot) or to the end of the pass
SentencePlaceNext(sentences, n, k, list, canvas, shown, called) ==
    \E adv \in SentenceAdvance(sentences, n, k, list) :
        /\ pos' = adv.pos
        /\ placed' = adv.placed
        /\ trace' = called \o adv.calls
        /\ IF adv.pos > Len(sentences)
           THEN /\ targets' = sentenceTargets(sentences, adv.placed)
                /\ surface' = canvas
                /\ passPc' = "done"
                /\ UNCHANGED <<imageCache, loads>>
           ELSE LET spot == adv.placed[Len(adv.placed)]
                    cells == SentenceCells(spot, sentenceBlockMetrics(n))
                    got == loadImage(ItemImage(sentences[adv.pos].verb), imageCache, loads)
                IN  /\ targets' = shown
                    /\ surface' = Append(canvas, Paint("block", "character", <<>>, cells.character))
                    /\ imageCache' = got.cache
                    /\ loads' = got.loads
                    /\ passPc' = "awaitVerb"

\* lines 694-757, from the return of drawBackground to the first await of the
\* placement loop
SentenceRun ==
    /\ passPc = "start"
    /\ sceneType = "sentence"
    /\ LET pre == preconditionError(criteria.phonemes, criteria.positions)
           n == sentenceCount(count)
       IN  IF pre # NULL
           THEN PassFails(pre[1], trace) /\ UNCHANGED nSentences
           ELSE \E built \in buildSentences(0, n, [sentences |-> <<>>, error |-> NULL, trace |-> trace]) :
                   /\ nSentences' = n
                   /\ chosen' = built.sentences
                   /\ selection' = Repeat("group", Len(built.sentences))
                   /\ errorModal' = IF built.error # NULL THEN built.error ELSE errorModal
                   /\ UNCHANGED <<fs, drawnTargets, tasks, usageLog>>
                   /\ IF built.sentences = <<>>
                      THEN /\ targets' = ErrorTargets(built.error[1])
                           /\ trace' = built.trace
                           /\ passPc' = "done"
                           /\ UNCHANGED <<placed, pos, imageCache, loads, surface>>
                      ELSE SentencePlaceNext(built.sentences, n, 1, <<>>, surface,
                                             IF built.error # NULL THEN ErrorTargets(built.error[1])
                                                                   ELSE targets,
                                             built.trace)
    /\ UNCHANGED <<sceneType, count>>
    /\ UNCHANGED lexVars
    /\ UNCHANGED earlier

\* lines 757-763: the verb image is there (or null): the verb cell, then the await
\* of the object image
SentenceVerbResume ==
    /\ passPc = "awaitVerb"
    /\ PromiseState(AwaitedImage, imageCache) # "pending"
    /\ LET cells == SentenceCells(placed[Len(placed)], sentenceBlockMetrics(nSentences))
           img == PromiseState(AwaitedImage, imageCache)
           got == loadImage(ItemImage(chosen[pos].object), imageCache, loads)
       IN  /\ surface' = Append(surface, Paint(IF img = "image" THEN "image" ELSE "block", "verb",
                                               chosen[pos].verb.word, cells.verb))
           /\ imageCache' = got.cache
           /\ loads' = got.loads
    /\ passPc' = "awaitObject"
    /\ UNCHANGED <<placed, fs, sceneType, nSentences, selection, pos>>
    /\ UNCHANGED <<count, chosen, drawnTargets, tasks, targets, errorModal, usageLog, trace>>
    /\ UNCHANGED lexVars
    /\ UNCHANGED earlier

logUsageRewrites(list, event) == <<event>>

\* lines 618-623: the stored list is read, the record pushed, the list stored
logUsage(list, event) == Append(list, event)

\* lines 764-776: the object cell, the usage record, and on to the next group
SentenceObjectResume ==
    /\ passPc = "awaitObject"
    /\ PromiseState(AwaitedImage, imageCache) # "pending"
    /\ LET cells == SentenceCells(placed[Len(placed)], sentenceBlockMetrics(nSentences))
           img == PromiseState(AwaitedImage, imageCache)
       IN  /\ usageLog' = logUsage(usageLog, [mode |-> <<"sentence", nSentences>>,
                                              verb |-> chosen[pos].verb.word,
                                              noun |-> chosen[pos].object.word])
           /\ SentencePlaceNext(chosen, nSentences, pos + 1, placed,
                                Append(surface, Paint(IF img = "image" THEN "image" ELSE "block",
                                                      "object", chosen[pos].object.word, cells.object)),
                                targets, trace \o <<"logUsage">>)
    /\ UNCHANGED <<fs, sceneType, nSentences, selection>>
    /\ UNCHANGED <<count, chosen, drawnTargets, tasks, errorModal>>
    /\ UNCHANGED lexVars
    /\ UNCHANGED earlier

----------------------------------------------------------------------------
(* Specification of one pass of generate(), with the image events          *)

PassNouns ==
    BankNouns \o << Item(<<"s","o","u","p">>,     "final",   1, TRUE, << <<"p">> >>),
                    Item(<<"S","p","o","o","n">>, "initial", 1, TRUE, << <<"S">> >>) >>

PassVerbs ==
    BankVerbs \o << Item(<<"s","t","i","r">>, "initial", 1, TRUE, << <<"s">>, <<"t">> >>) >>

BoxS == [kind |-> "phoneme", value |-> <<"s">>]
BoxP == [kind |-> "phoneme", value |-> <<"p">>]

\* the states of the selection controls a pass is run in: checked boxes of
\* #phonemeFilters, checked phoneme boxes outside it, positions, syllables
PassDoms ==
    { << {},     {},          Positions,            {}    >>,
      << {BoxS}, {},          {},                   {}    >>,
      << {BoxS}, {},          Positions,            {"1"} >>,
      << {BoxS}, {},          {"initial"},          {}    >>,
      << {BoxS}, {},          {"final"},            {}    >>,
      << {BoxP}, {},          {"medial"},           {}    >>,
      << {BoxP}, {},          {"final"},            {}    >>,
      << {},     { <<"s">> }, {"initial", "final"}, {"1"} >> }

\* the counts asked for
PassCounts(type) == IF type = "sentence" THEN {1, 2, 3} ELSE {1, 2}

InitPass ==
    /\ sceneType \in SceneTypes
    /\ count \in PassCounts(sceneType)
    /\ WORDS = [nouns |-> PassNouns, verbs |-> PassVerbs]
    /\ \E d \in PassDoms :
          /\ checked = d[1]
          /\ criteria = DomCriteria(d[1], d[2], d[3], d[4])
    /\ out = NoOut
    /\ smp = SmpIdle
    /\ placed = <<>>
    /\ fs = FsIdle
    /\ nSentences = 0
    /\ selection = <<>>
    /\ pos = 1
    /\ passPc = "generate"
    /\ chosen = <<>>
    /\ drawnTargets = <<>>
    /\ tasks = <<>>
    /\ targets = NoTargets
    /\ errorModal = NULL
    /\ imageCache = [p \in ImagePaths |-> "absent"]
    /\ loads = [p \in ImagePaths |-> 0]
    /\ surface = <<>>
    /\ usageLog = <<>>
    /\ trace = <<>>
    /\ earlier = NoEarlier

NextPass ==
    \/ DrawBackground
    \/ GalleryRun
    \/ DrawItemResume
    \/ GalleryFinish
    \/ SentenceRun
    \/ SentenceVerbResume
    \/ SentenceObjectResume
    \/ ImageOnload
    \/ ImageOnerror

SpecPass == InitPass /\ [][NextPass]_vars

----------------------------------------------------------------------------
(* generate() called again while a pass is still waiting for its images    *)

\* the counts asked for when two passes meet: of the pass started first, and of
\* the pass started while the first one waits
TwoPassCounts(type) == IF type = "sentence" THEN {1, 2} ELSE {1}
AgainCounts(type) == {1}

RunningPassCancelled == NoEarlier

\* the locals of the running pass, which stay alive with its pending await
RunningPass ==
    [passPc |-> passPc, sceneType |-> sceneType, nSentences |-> nSentences,
     placed |-> placed, pos |-> pos, chosen |-> chosen,
     drawnTargets |-> drawnTargets, tasks |-> tasks, trace |-> trace]

\* line 879: a click on Generate while the running pass waits for an image. The
\* handler runs generate() up to the await of drawBackground (line 781 or 692):
\* the fill of line 539 wipes the canvas. The pass already running keeps its
\* locals and its pending awaits; nothing cancels it. Continuations of the two
\* passes that are queued at the same time run in either order.
GenerateAgain ==
    /\ passPc \in {"awaitAll", "awaitVerb", "awaitObject"}
    /\ earlier = NoEarlier
    /\ ~ContinuationQueued
    /\ earlier' = RunningPass
    /\ \E type \in SceneTypes :
          /\ sceneType' = type
          /\ count' \in AgainCounts(type)
    /\ surface' = << Paint("fill", "background", <<>>, Rect(0, 0, CANVAS_W, CANVAS_H)) >>
    /\ passPc' = "start"
    /\ placed' = <<>>
    /\ pos' = 1
    /\ nSentences' = 0
    /\ selection' = <<>>
    /\ chosen' = <<>>
    /\ drawnTargets' = <<>>
    /\ tasks' = <<>>
    /\ trace' = <<>>
    /\ UNCHANGED <<fs, targets, errorModal, imageCache, loads, usageLog>>
    /\ UNCHANGED lexVars

\* lines 565-572 after the await, for a drawItem of the earlier pass
EarlierDrawItemResume ==
    /\ EarlierReadyTasks # {}
    /\ LET k == CHOOSE r \in EarlierReadyTasks : \A q \in EarlierReadyTasks : r <= q
           img == PromiseState(earlier.tasks[k].promise, imageCache)
       IN  /\ earlier' = [earlier EXCEPT !.tasks[k].pc = "done", !.tasks[k].img = img]
           /\ surface' = Append(surface, DrawItemPaint(earlier.tasks[k], img))
    /\ UNCHANGED <<count, chosen, drawnTargets, tasks, targets, errorModal, imageCache, loads,
                   usageLog, trace>>
    /\ UNCHANGED lexVars
    /\ UNCHANGED placeVars

\* lines 854-856 of the earlier pass, once its Promise.all(tasks) is fulfilled
EarlierGalleryFinish ==
    /\ earlier.passPc = "awaitAll"
    /\ PromiseAll(earlier.tasks)
    /\ targets' = galleryTargets(earlier.chosen, earlier.drawnTargets)
    /\ earlier' = [earlier EXCEPT !.passPc = "done"]
    /\ UNCHANGED <<count, chosen, drawnTargets, tasks, errorModal, imageCache, loads,
                   surface, usageLog, trace>>
    /\ UNCHANGED lexVars
    /\ UNCHANGED placeVars

\* lines 757-763 of the earlier pass
EarlierSentenceVerbResume ==
    /\ earlier.passPc = "awaitVerb"
    /\ PromiseState(EarlierAwaitedImage, imageCache) # "pending"
    /\ LET cells == SentenceCells(earlier.placed[Len(earlier.placed)],
                                  sentenceBlockMetrics(earlier.nSentences))
           img == PromiseState(EarlierAwaitedImage, imageCache)
           got == loadImage(ItemImage(earlier.chosen[earlier.pos].object), imageCache, loads)
       IN  /\ surface' = Append(surface, Paint(IF img = "image" THEN "image" ELSE "block", "verb",
                                               earlier.chosen[earlier.pos].verb.word, cells.verb))
           /\ imageCache' = got.cache
           /\ loads' = got.loads
    /\ earlier' = [earlier EXCEPT !.passPc = "awaitObject"]
    /\ UNCHANGED <<count, chosen, drawnTargets, tasks, targets, errorModal, usageLog, trace>>
    /\ UNCHANGED lexVars
    /\ UNCHANGED placeVars

\* lines 764-776 of the earlier pass: the object cell, the usage record, and on to
\* its next group or to its list
EarlierSentenceObjectResume ==
    /\ earlier.passPc = "awaitObject"
    /\ PromiseState(EarlierAwaitedImage, imageCache) # "pending"
    /\ LET n == earlier.nSentences
           sentences == earlier.chosen
           cells == SentenceCells(earlier.placed[Len(earlier.placed)], sentenceBlockMetrics(n))
           img == PromiseState(EarlierAwaitedImage, imageCache)
           canvas == Append(surface, Paint(IF img = "image" THEN "image" ELSE "block", "object",
                                           sentences[earlier.pos].object.word, cells.object))
       IN  /\ usageLog' = logUsage(usageLog, [mode |-> <<"sentence", n>>,
                                              verb |-> sentences[earlier.pos].verb.word,
                                              noun |-> sentences[earlier.pos].object.word])
           /\ \E adv \in SentenceAdvance(sentences, n, earlier.pos + 1, earlier.placed) :
                 IF adv.pos > Len(sentences)
                 THEN /\ targets' = sentenceTargets(sentences, adv.placed)
                      /\ surface' = canvas
                      /\ earlier' = [earlier EXCEPT !.pos = adv.pos, !.placed = adv.placed,
                                                    !.trace = @ \o <<"logUsage">> \o adv.calls,
                                                    !.passPc = "done"]
                      /\ UNCHANGED <<imageCache, loads>>
                 ELSE LET next == SentenceCells(adv.placed[Len(adv.placed)], sentenceBlockMetrics(n))
                          got == loadImage(ItemImage(sentences[adv.pos].verb), imageCache, loads)
                      IN  /\ targets' = targets
                          /\ surface' = Append(canvas, Paint("block", "character", <<>>, next.character))
                          /\ imageCache' = got.cache
                          /\ loads' = got.loads
                          /\ earlier' = [earlier EXCEPT !.pos = adv.pos, !.placed = adv.placed,
                                                        !.trace = @ \o <<"logUsage">> \o adv.calls,
                                                        !.passPc = "awaitVerb"]
    /\ UNCHANGED <<count, chosen, drawnTargets, tasks, errorModal, trace>>
    /\ UNCHANGED lexVars
    /\ UNCHANGED placeVars

\* the states of the selection controls two meeting passes are run in
TwoPassDoms ==
    { << {BoxS}, {}, Positions,  {"1"} >>,
      << {BoxS}, {}, {},         {}    >>,
      << {BoxP}, {}, {"medial"}, {}    >> }

InitTwoPasses ==
    /\ sceneType \in SceneTypes
    /\ count \in TwoPassCounts(sceneType)
    /\ WORDS = [nouns |-> PassNouns, verbs |-> PassVerbs]
    /\ \E d \in TwoPassDoms :
          /\ checked = d[1]
          /\ criteria = DomCriteria(d[1], d[2], d[3], d[4])
    /\ out = NoOut
    /\ smp = SmpIdle
    /\ placed = <<>>
    /\ fs = FsIdle
    /\ nSentences = 0
    /\ selection = <<>>
    /\ pos = 1
    /\ passPc = "generate"
    /\ chosen = <<>>
    /\ drawnTargets = <<>>
    /\ tasks = <<>>
    /\ targets = NoTargets
    /\ errorModal = NULL
    /\ imageCache = [p \in ImagePaths |-> "absent"]
    /\ loads = [p \in ImagePaths |-> 0]
    /\ surface = <<>>
    /\ usageLog = <<>>
    /\ trace = <<>>
    /\ earlier = NoEarlier

NextTwoPasses ==
    \/ DrawBackground
    \/ GalleryRun
    \/ DrawItemResume
    \/ GalleryFinish
    \/ SentenceRun
    \/ SentenceVerbResume
    \/ SentenceObjectResume
    \/ ImageOnload
    \/ ImageOnerror
    \/ GenerateAgain
    \/ EarlierDrawItemResume
    \/ EarlierGalleryFinish
    \/ EarlierSentenceVerbResume
    \/ EarlierSentenceObjectResume

SpecTwoPasses == InitTwoPasses /\ [][NextTwoPasses]_vars

----------------------------------------------------------------------------
(* Claims about the spatial placer                                         *)

\* C1: in one pass (gallery or sentence), after any number of placements, every
\* two distinct rectangles of the pass's placed list fail the padded overlap test
\* findSpot uses, rectsOverlap(a, b, 16), in both argument orders.
C1_PlacedPairwiseClear ==
    passPc # "none" =>
        \A a \in 1..Len(placed), b \in 1..Len(placed) :
            a # b => /\ ~rectsOverlap(placed[a], placed[b], 16)
                     /\ ~rectsOverlap(placed[b], placed[a], 16)

\* C1 witness: a gallery pass has placed two rectangles, the second exactly one
\* pixel past the padded reach of the first.
C1_Witness ==
    /\ sceneType \in {"i-spy", "actions", "mixed"}
    /\ Len(placed) = 2
    /\ placed[1].y = placed[2].y
    /\ placed[2].x = placed[1].x + placed[1].w + 17

\* C2: whenever findSpot returns a rectangle, margin <= x <= CANVAS_W - margin - w
\* and margin <= y <= CANVAS_H - margin - h: the rectangle is inside the 2480x3508
\* canvas, at least margin pixels from every edge.
C2_SpotInsideMargins ==
    (fs.pc = "done" /\ fs.ret # NULL) =>
        LET r == fs.ret[1] IN
        /\ r.w = fs.w /\ r.h = fs.h
        /\ fs.margin <= r.x /\ r.x <= 2480 - fs.margin - fs.w
        /\ fs.margin <= r.y /\ r.y <= 3508 - fs.margin - fs.h
        /\ r.x >= 0 /\ r.y >= 0 /\ r.x + r.w <= 2480 /\ r.y + r.h <= 3508
        /\ 2480 - (r.x + r.w) >= fs.margin /\ 3508 - (r.y + r.h) >= fs.margin

\* C2 witness: findSpot returned a rectangle whose right and bottom edges are
\* exactly margin pixels from the canvas edges.
C2_Witness ==
    /\ fs.pc = "done" /\ fs.ret # NULL
    /\ fs.ret[1].x + fs.w = 2480 - fs.margin
    /\ fs.ret[1].y + fs.h = 3508 - fs.margin

C3_Oversize ==
    \/ 2480 - fs.margin - fs.w < fs.margin
    \/ 3508 - fs.margin - fs.h < fs.margin

\* C3: when w alone or h alone exceeds the usable extent (CANVAS_W - margin - w <
\* margin or CANVAS_H - margin - h < margin), findSpot returns NONE at once: it
\* never enters its loop, draws no candidate and uses none of the retry budget,
\* whatever the placed list holds.
C3_DegenerateReturnsAtOnce ==
    (fs.pc # "idle" /\ C3_Oversize) =>
        /\ fs.pc \in {"call", "done"}
        /\ fs.drawn = 0 /\ fs.i = 0 /\ fs.candidate = NULL
        /\ fs.pc = "done" => fs.ret = NULL

\* C3 witness: a call whose height alone is one pixel too much, with a budget to
\* spend and rectangles already placed, has returned NONE.
C3_Witness ==
    /\ fs.pc = "done" /\ fs.ret = NULL
    /\ 3508 - fs.margin - fs.h = fs.margin - 1
    /\ 2480 - fs.margin - fs.w > fs.margin
    /\ fs.tries > 0 /\ placed # <<>>

C4_Overlapping(c) == \E k \in 1..Len(placed) : rectsOverlap(c, placed[k], 16)

C4_LoopInvariant ==
    /\ fs.drawn <= fs.tries
    /\ fs.pc = "loop" =>
          /\ fs.drawn = fs.i
          /\ fs.i > 0 => (fs.candidate # NULL /\ C4_Overlapping(fs.candidate[1]))
    /\ (fs.pc = "done" /\ fs.ret # NULL) =>
          /\ fs.ret = fs.candidate
          /\ ~C4_Overlapping(fs.ret[1])
          /\ fs.drawn = fs.i + 1
    /\ (fs.pc = "done" /\ fs.ret = NULL /\ ~C3_Oversize) =>
          /\ fs.drawn = fs.tries /\ fs.i = fs.tries
          /\ fs.tries > 0 => (fs.candidate # NULL /\ C4_Overlapping(fs.candidate[1]))
    /\ fs.pc \in {"call", "loop"} => ENABLED FindSpotStep

\* a step of findSpot either rejects the candidate it drew, which overlaps, or ends
\* the call; a pass that got NONE moves on to its next item
C4_Step ==
    /\ (fs.pc = "loop" /\ fs'.pc = "loop") =>
          /\ fs'.i = fs.i + 1 /\ fs'.drawn = fs.drawn + 1
          /\ C4_Overlapping(fs'.candidate[1])
    /\ (passPc = "placing" /\ fs.pc = "done" /\ fs.ret = NULL) =>
          /\ pos' = pos + 1 /\ placed' = placed /\ fs'.pc = "idle"

\* C4: findSpot terminates after drawing at most maxTries candidates; it returns the
\* first drawn candidate that overlaps no placed rectangle (every candidate drawn
\* before it overlapped), and NONE once maxTries candidates overlapped; the pass
\* then goes on to the next item without trying that one again.
C4_BoundedFirstFit == []C4_LoopInvariant /\ [][C4_Step]_vars

\* C4 witness: a pass's findSpot call used its whole budget on overlapping
\* candidates and returned NONE.
C4_Witness ==
    /\ passPc = "placing" /\ fs.pc = "done" /\ fs.ret = NULL
    /\ fs.tries >= 2 /\ fs.drawn = fs.tries
    /\ placed # <<>>

----------------------------------------------------------------------------
(* Claims about the lexicon filter                                         *)

\* the items of list at the indices of idx, in the order of list
ItemsAt(list, idx) ==
    [k \in 1..Cardinality(idx) |->
        list[CHOOSE i \in idx : Cardinality({ j \in idx : j <= i }) = k]]

SourceList(type) == IF type = "actions" THEN BankVerbs ELSE BankNouns

NothingChecked == \A c \in checked : c.kind \notin {"phoneme", "cluster"}

SameLetter(c, d) ==
    \/ c = d
    \/ {c, d} \in { {"s", "S"}, {"t", "T"}, {"p", "P"}, {"c", "C"} }

EqualIgnoringCase(a, b) ==
    Len(a) = Len(b) /\ \A k \in 1..Len(a) : SameLetter(a[k], b[k])

C6_TagHit(item) ==
    /\ item.hasPhonemes
    /\ \E k \in 1..Len(item.phonemes) :
          \E c \in checked : c.kind = "phoneme" /\ EqualIgnoringCase(item.phonemes[k], c.value)

C6_ClusterHit(item) ==
    \E c \in checked :
        /\ c.kind = "cluster"
        /\ \E from \in 1..Len(item.word) :
              /\ from + Len(c.value) - 1 <= Len(item.word)
              /\ EqualIgnoringCase(SubSeq(item.word, from, from + Len(c.value) - 1), c.value)

\* C6: with at least one phoneme or cluster selected, an item passes the
\* phoneme/cluster predicate exactly when one of its tags equals a selected phoneme
\* ignoring case, or a selected cluster occurs, ignoring case, anywhere in its word;
\* an item without tags passes only by a cluster.
C6_TagOrClusterMatch ==
    (/\ out.fn \in {"passesPhonemeFilters", "matchesPhonemeOrCluster"}
     /\ ~NothingChecked) =>
        /\ out.ret = (C6_TagHit(out.arg) \/ C6_ClusterHit(out.arg))
        /\ (out.ret /\ ~out.arg.hasPhonemes) => C6_ClusterHit(out.arg)

\* C6 witness: `toast`, which has no tags, passes with phoneme s and cluster st
\* selected: the cluster occurs at the end of the word.
C6_Witness ==
    /\ out.fn = "passesPhonemeFilters"
    /\ out.arg.word = <<"t","o","a","s","t">>
    /\ [kind |-> "phoneme", value |-> <<"s">>] \in checked
    /\ [kind |-> "cluster", value |-> <<"s","t">>] \in checked
    /\ out.ret = TRUE

\* C7: matchesSyllables(item, sel) is true when sel is empty; otherwise exactly when
\* the item's count is one of the numbers in sel, or "4plus" is in sel and the count
\* is at least 4; an item without a count has count 0.
C7_SyllablePredicate ==
    out.fn = "matchesSyllables" =>
        LET n == out.arg.syllables
            sel == criteria.syllables
        IN  out.ret = ( \/ sel = {}
                        \/ ("1" \in sel /\ n = 1)
                        \/ ("2" \in sel /\ n = 2)
                        \/ ("3" \in sel /\ n = 3)
                        \/ ("4plus" \in sel /\ n >= 4) )

\* C7 witness: a four-syllable item passes a selection of "1" and "4plus".
C7_Witness ==
    /\ out.fn = "matchesSyllables"
    /\ out.arg.syllables = 4
    /\ criteria.syllables = {"1", "4plus"}
    /\ out.ret = TRUE

C8_Passes(item) ==
    /\ item.position \in criteria.positions
    /\ matchesSyllables(item, criteria.syllables)
    /\ passesPhonemeFilters(item, criteria.phonemes)

\* C8: pool returns, in source order, exactly the items of the chosen list (verbs
\* for 'actions', nouns otherwise) that pass the position, the syllable and the
\* phoneme/cluster predicate; every returned item is at a selected position, so no
\* position selected gives an empty result.
C8_PoolIsConjunction ==
    out.fn = "pool" =>
        LET list == SourceList(out.arg) IN
        /\ out.ret = ItemsAt(list, { i \in 1..Len(list) : C8_Passes(list[i]) })
        /\ \A k \in 1..Len(out.ret) : out.ret[k].position \in criteria.positions
        /\ criteria.positions = {} => out.ret = <<>>

\* C8 witness: with phoneme s checked, syllables "1" and "4plus" and positions
\* initial and medial selected, the noun pool is `Star`, `escalator`: `sofa` fails
\* the syllable predicate alone, `cup` the position and phoneme predicates.
C8_Witness ==
    /\ out.fn = "pool" /\ out.arg = "i-spy"
    /\ checked = { [kind |-> "phoneme", value |-> <<"s">>] }
    /\ criteria.syllables = {"1", "4plus"}
    /\ criteria.positions = {"initial", "medial"}
    /\ Len(out.ret) = 2
    /\ out.ret[1].word = <<"S","t","a","r">>
    /\ out.ret[2].syllables = 4

----------------------------------------------------------------------------
(* Claims about the sampler                                                *)

\* C9: for every pool and n >= 1, sample(pool, n) returns exactly min(n, |pool|)
\* elements, each an element of pool, no index of pool twice, and leaves pool as it
\* was.
C9_SampleDistinctMembers ==
    (smp.pc = "done" /\ smp.n >= 1) =>
        /\ Len(smp.ret) = (IF smp.n < Len(smp.given) THEN smp.n ELSE Len(smp.given))
        /\ \A k \in 1..Len(smp.ret) :
              \E i \in 1..Len(smp.given) : smp.ret[k] = smp.given[i]
        /\ \A k \in 1..Len(smp.ret), l \in 1..Len(smp.ret) :
              k # l => smp.ret[k].ref # smp.ret[l].ref
        /\ smp.list = smp.given

\* C9 witness: two of three elements were asked for and came back in an order that
\* is not the pool's.
C9_Witness ==
    /\ smp.pc = "done" /\ smp.n = 2 /\ Len(smp.given) = 3
    /\ Len(smp.ret) = 2
    /\ smp.ret[1].ref = 3 /\ smp.ret[2].ref = 1

\* C10: for every pool and every n <= 0, zero and negative alike, sample(pool, n)
\* returns the empty sequence.
C10_NonPositiveGivesEmpty ==
    (smp.pc = "done" /\ smp.n <= 0) => smp.ret = <<>>

----------------------------------------------------------------------------
(* Claims about a pass's selection                                         *)

C11_Members(list) == { list[k] : k \in 1..Len(list) }

\* C11: in mixed mode with n items requested (1..24), the selection is exactly
\* min(ceil(0.6 n), |noun pool|) nouns of the filtered noun pool followed by
\* min(floor(0.4 n), |verb pool|) verbs of the filtered verb pool; the two quotas
\* sum to n; a short pool never raises the other kind's count; with both pools of
\* at least n items the selection has exactly n.
C11_MixedQuotas ==
    (out.fn = "gallerySelection" /\ out.arg.type = "mixed") =>
        LET n == out.arg.n
            nouns == pool("i-spy", criteria.phonemes, criteria.positions, criteria.syllables)
            verbs == pool("actions", criteria.phonemes, criteria.positions, criteria.syllables)
            ceil06 == CHOOSE k \in 0..n : 10 * k >= 6 * n /\ 10 * (k - 1) < 6 * n
            floor04 == CHOOSE k \in 0..n : 10 * k <= 4 * n /\ 10 * (k + 1) > 4 * n
            a == IF ceil06 < Len(nouns) THEN ceil06 ELSE Len(nouns)
            b == IF floor04 < Len(verbs) THEN floor04 ELSE Len(verbs)
            sel == out.ret
        IN  /\ n \in 1..24
            /\ ceil06 + floor04 = n
            /\ Len(sel) = a + b
            /\ \A k \in 1..a : sel[k].kind = "noun" /\ sel[k].item \in C11_Members(nouns)
            /\ \A k \in (a + 1)..(a + b) : sel[k].kind = "verb" /\ sel[k].item \in C11_Members(verbs)
            /\ \A k \in 1..Len(sel), l \in 1..Len(sel) : k # l => sel[k] # sel[l]
            /\ (Len(nouns) >= n /\ Len(verbs) >= n) => Len(sel) = n

\* C11 witness: ten items asked for with five nouns and three verbs in the pools:
\* the selection is the five nouns and the three verbs, eight items, the short
\* noun pool leaving the verb count at its quota's reach.
C11_Witness ==
    /\ out.fn = "gallerySelection" /\ out.arg.type = "mixed" /\ out.arg.n = 10
    /\ Len(pool("i-spy", criteria.phonemes, criteria.positions, criteria.syllables)) = 5
    /\ Len(pool("actions", criteria.phonemes, criteria.positions, criteria.syllables)) = 3
    /\ Len(out.ret) = 8
    /\ out.ret[5].kind = "noun" /\ out.ret[6].kind = "verb"

----------------------------------------------------------------------------
(* Claims about the image cache                                            *)

C19_Settled(state) == state \in {"image", "null"}

C19_CacheInvariant ==
    /\ \A src \in ImagePaths :
          /\ loads[src] <= 1
          /\ (loads[src] = 0) = (imageCache[src] = "absent")
          /\ imageCache[src] \in {"absent", "pending", "image", "null"}
    /\ \A k \in 1..Len(tasks), l \in 1..Len(tasks) :
          (tasks[k].pc = "done" /\ tasks[l].pc = "done" /\ tasks[k].promise = tasks[l].promise)
              => tasks[k].img = tasks[l].img
    /\ \A k \in 1..Len(tasks) :
          /\ tasks[k].pc = "done" => tasks[k].img = PromiseState(tasks[k].promise, imageCache)
          /\ tasks[k].pc = "done" => tasks[k].img \in {"image", "null"}
          /\ tasks[k].promise # "" => imageCache[tasks[k].promise] # "absent"

C19_CacheStep ==
    \A src \in ImagePaths :
        /\ loads'[src] >= loads[src]
        /\ imageCache[src] # "absent" => loads'[src] = loads[src]
        /\ C19_Settled(imageCache[src]) => imageCache'[src] = imageCache[src]
        /\ imageCache[src] = "pending" => imageCache'[src] # "absent"

\* C19: for every image path at most one load is ever issued, whatever the
\* interleaving of loadImage(path) calls, including calls made while the first load
\* is pending and calls made after it failed; every caller observes the same
\* outcome; a failed load is never retried and yields null for every later call;
\* loadImage never rejects.
C19_LoadOnce == []C19_CacheInvariant /\ [][C19_CacheStep]_vars

\* C19 witness: three drawItem calls for the same picture, the load issued once and
\* failed; two callers have seen null, the third, called after the failure, waits
\* on the same settled promise.
C19_Witness ==
    /\ Len(tasks) = 3
    /\ \A k \in 1..3 : tasks[k].promise = "images/cup.png"
    /\ tasks[1].pc = "done" /\ tasks[1].img = "null"
    /\ tasks[2].pc = "done" /\ tasks[2].img = "null"
    /\ tasks[3].pc = "await"
    /\ imageCache["images/cup.png"] = "null"
    /\ loads["images/cup.png"] = 1

----------------------------------------------------------------------------
(* Claims about the errors of a pass                                       *)

\* where a pass of generate() can stand
PassPcs == {"generate", "start", "awaitAll", "awaitVerb", "awaitObject", "done"}

PreconditionFails == criteria.phonemes = {} \/ criteria.positions = {}

NounsPool == pool("i-spy", criteria.phonemes, criteria.positions, criteria.syllables)
VerbsPool == pool("actions", criteria.phonemes, criteria.positions, criteria.syllables)

\* nothing of a scene exists: no selection, no placement, no drawItem, no load, no
\* cell on the canvas, no usage record
NothingLaidOut ==
    /\ chosen = <<>> /\ selection = <<>> /\ placed = <<>>
    /\ drawnTargets = <<>> /\ tasks = <<>>
    /\ usageLog = <<>>
    /\ \A src \in ImagePaths : loads[src] = 0
    /\ \A k \in 1..Len(surface) : surface[k].role = "background"

\* the text of filterSummary() for a selection with a phoneme and a position
SummaryOfSelection ==
    [phonemes |-> criteria.phonemes,
     positions |-> criteria.positions,
     syllables |-> IF criteria.syllables = {} THEN {"any"}
                   ELSE (criteria.syllables \ {"4plus"})
                           \cup (IF "4plus" \in criteria.syllables THEN {"4+"} ELSE {})]

ShowsError(text, summary) ==
    /\ targets = [kind |-> "error", text |-> text, summary |-> summary, items |-> <<>>]
    /\ errorModal = << [text |-> text, summary |-> summary] >>

\* C12: in every mode, with no phoneme or no position selected the pass reports a
\* precondition error and ends without computing a pool, sampling, placing an
\* item or group, or appending a usage record.
C12_PreconditionEndsPass ==
    (passPc \in PassPcs /\ PreconditionFails) =>
        /\ passPc \in {"generate", "start", "done"}
        /\ trace = <<>>
        /\ NothingLaidOut
        /\ passPc = "done" =>
              ShowsError(IF criteria.phonemes = {} THEN "Select at least one phoneme."
                                                   ELSE "Select at least one position.", <<>>)

\* C12 witness: a sentence pass run with a phoneme but no position selected has
\* ended on the position error.
C12_Witness ==
    /\ passPc = "done" /\ sceneType = "sentence"
    /\ criteria.phonemes # {} /\ criteria.positions = {}
    /\ targets.text = "Select at least one position."
    /\ trace = <<>>

\* C13: a gallery pass of type i-spy (actions) whose filtered noun (verb) pool is
\* empty ends with an empty-pool error naming NOUNS (VERBS) with the filter
\* summary; no item is placed or drawn.
C13_EmptyPoolEndsPass ==
    (/\ passPc \in PassPcs
     /\ ~PreconditionFails
     /\ \/ sceneType = "i-spy" /\ NounsPool = <<>>
        \/ sceneType = "actions" /\ VerbsPool = <<>>) =>
        /\ passPc \in {"generate", "start", "done"}
        /\ NothingLaidOut
        /\ \A k \in 1..Len(trace) : trace[k] \notin {"sample", "findSpot", "logUsage"}
        /\ passPc = "done" =>
              ShowsError(IF sceneType = "i-spy" THEN "No NOUNS match your filters"
                                                ELSE "No VERBS match your filters",
                         << SummaryOfSelection >>)

\* C13 witness: an i-spy pass with phoneme p and position medial selected, which no
\* noun of the bank passes, has ended on the NOUNS error, nothing placed.
C13_Witness ==
    /\ passPc = "done" /\ sceneType = "i-spy"
    /\ criteria.positions = {"medial"} /\ NounsPool = <<>> /\ VerbsPool # <<>>
    /\ targets.kind = "error" /\ targets.text = "No NOUNS match your filters"
    /\ targets.summary # <<>> /\ placed = <<>>

C14_Ceil06(n) == CHOOSE k \in 0..n : 10 * k >= 6 * n /\ 10 * (k - 1) < 6 * n
C14_Floor04(n) == CHOOSE k \in 0..n : 10 * k <= 4 * n /\ 10 * (k + 1) > 4 * n

C15_PastChecks ==
    /\ ~PreconditionFails
    /\ sceneType = "i-spy" => NounsPool # <<>>
    /\ sceneType = "actions" => VerbsPool # <<>>
    /\ sceneType = "mixed" => (NounsPool # <<>> \/ VerbsPool # <<>>)
    /\ sceneType = "sentence" => chosen # <<>>

\* C15 as stated: in gallery and in sentence mode, a pass past the precondition and
\* empty-pool checks that ends with nothing placed reports a "could not fit" error
\* instead of a target list.
C15_NothingPlacedReportsNoFit ==
    (passPc = "done" /\ C15_PastChecks /\ placed = <<>>) =>
        /\ targets.kind = "error"
        /\ targets.text = "Couldn't fit any sentences."

\* C15 amended: a sentence pass past the checks reports "Couldn't fit any
\* sentences" exactly when no group was placed, and lists as many sentences as
\* groups were placed otherwise. A gallery pass has no such error: past the checks
\* it places nothing only when its selection is empty (mixed mode, the quota of a
\* kind falling on an empty pool), and then reports "No items matched your
\* selections" instead of a target list; with a selection it reports the list of
\* the items placed.
C15_NothingPlacedReport ==
    (passPc = "done" /\ C15_PastChecks) =>
        IF sceneType = "sentence"
        THEN /\ (placed = <<>>) = (targets.kind = "error")
             /\ targets.kind = "error" => targets.text = "Couldn't fit any sentences."
             /\ targets.kind # "error" =>
                   (targets.kind = "sentences" /\ Len(targets.items) = Len(placed))
        ELSE /\ (placed = <<>>) = (chosen = <<>>)
             /\ (placed = <<>>) = (targets.kind = "error")
             /\ targets.kind = "error" => targets.text = "No items matched your selections."
             /\ targets.kind # "error" =>
                   /\ targets.kind = "targets"
                   /\ Len(targets.items) = Len(placed)
                   /\ targets.text # "Couldn't fit any sentences."

\* C15 witness: a mixed pass asked for one item, with verbs but no noun passing the
\* filters: the noun quota of one falls on the empty pool, the verb quota is zero,
\* nothing is placed and the pass reports that no items matched.
C15_Witness ==
    /\ passPc = "done" /\ sceneType = "mixed" /\ count = 1
    /\ NounsPool = <<>> /\ VerbsPool # <<>>
    /\ placed = <<>> /\ chosen = <<>>
    /\ targets.kind = "error" /\ targets.text = "No items matched your selections."

----------------------------------------------------------------------------
(* Claims about a sentence pass                                            *)

\* the (verb, object) words of the groups painted, in the order they were painted
C16_Painted(role) ==
    LET IsRole(p) == p.role = role
        cells == SelectSeq(surface, IsRole)
    IN  [k \in 1..Len(cells) |-> cells[k].word]

C16_PlacedSentences ==
    [k \in 1..Len(C16_Painted("object")) |->
        [verb |-> C16_Painted("verb")[k], object |-> C16_Painted("object")[k]]]

\* C16: in sentence mode the final target list holds exactly the (verb, object)
\* sentences of the groups that were placed, whatever the pattern of placement
\* successes and failures across the slots.
C16_ListIsPlacedSentences ==
    (passPc = "done" /\ sceneType = "sentence" /\ targets.kind = "sentences") =>
        targets.items = C16_PlacedSentences

C17_Members(list) == { list[k] : k \in 1..Len(list) }

\* the noun the bank gives for a word: the first one spelt like it, case aside
C17_BankNoun(word) ==
    LET hits == { k \in 1..Len(WORDS.nouns) : EqualIgnoringCase(WORDS.nouns[k].word, word) }
    IN  IF hits = {} THEN <<>>
        ELSE << WORDS.nouns[CHOOSE k \in hits : \A j \in hits : k <= j] >>

C17_PositionAndSyllable(item) ==
    /\ item.position \in criteria.positions
    /\ \/ criteria.syllables = {}
       \/ \E v \in criteria.syllables :
             IF v = "4plus" THEN item.syllables >= 4 ELSE item.syllables = ToNumber(v)

C17_WordFits(word) ==
    C17_BankNoun(word) # <<>> /\ C17_PositionAndSyllable(C17_BankNoun(word)[1])

\* C17: in sentence mode the object of a sentence is the first word of the verb's
\* suggestion list that is in the noun bank (case aside) and passes the syllable
\* and position filters; only when there is none is it a noun sampled from the
\* fully filtered noun pool. So every verb passes all three predicates and every
\* object at least the position and the syllable predicate.
C17_ObjectBySuggestion ==
    (passPc \in PassPcs /\ sceneType = "sentence") =>
        \A k \in 1..Len(chosen) :
            LET verb == chosen[k].verb
                object == chosen[k].object
                suggestions == VERB_OBJECT_SUGGESTIONS(toLowerCase(verb.word))
                fits == { i \in 1..Len(suggestions) : C17_WordFits(suggestions[i]) }
            IN  /\ verb \in C17_Members(VerbsPool)
                /\ C17_PositionAndSyllable(verb) /\ passesPhonemeFilters(verb, criteria.phonemes)
                /\ C17_PositionAndSyllable(object)
                /\ fits # {} =>
                      object = C17_BankNoun(suggestions[CHOOSE i \in fits : \A j \in fits : i <= j])[1]
                /\ fits = {} =>
                      (object \in C17_Members(NounsPool) /\ passesPhonemeFilters(object, criteria.phonemes))

\* C17 witness: with position initial alone selected the verb `stir` got `Spoon`:
\* `soup`, suggested first, is in the bank but at the final position, `bowl` is
\* not in the bank; and the verb `sip`, none of whose suggestions fits, got a noun
\* of the pool.
C17_Witness ==
    /\ passPc = "done" /\ sceneType = "sentence" /\ criteria.positions = {"initial"}
    /\ Len(chosen) = 2
    /\ chosen[1].verb.word = <<"s","t","i","r">> /\ chosen[1].object.word = <<"S","p","o","o","n">>
    /\ chosen[2].verb.word = <<"s","i","p">> /\ chosen[2].object.word = <<"s","o","f","a">>

C18_SlotsAttempted ==
    LET IsVerbPool(call) == call = "pool:actions" IN Len(SelectSeq(trace, IsVerbPool))

C18_NounsError ==
    /\ errorModal # <<>>
    /\ errorModal[1].text = "No NOUNS match your filters"

\* C18 as stated: in sentence mode, when a slot's verb has no qualifying suggested
\* object and the filtered noun pool is empty, only that slot is dropped: the
\* remaining slots up to the requested count are still attempted and the sentences
\* already accepted are kept.
C18_OnlyThatSlotDropped ==
    (passPc \in PassPcs /\ sceneType = "sentence" /\ C18_NounsError) =>
        /\ C18_SlotsAttempted = nSentences
        /\ Len(chosen) < nSentences

\* C18 amended: in sentence mode, when a slot's verb has no qualifying suggested
\* object and the filtered noun pool is empty, the NOUNS error is shown and the
\* slot loop stops there: no later slot is attempted. The sentences accepted before
\* that slot are kept and laid out; with none accepted the pass ends on the error.
C18_SlotLoopStops ==
    (passPc \in PassPcs /\ sceneType = "sentence" /\ C18_NounsError) =>
        /\ NounsPool = <<>>
        /\ C18_SlotsAttempted = Len(chosen) + 1
        /\ C18_SlotsAttempted <= nSentences
        /\ errorModal[1].summary = << SummaryOfSelection >>
        /\ passPc = "done" =>
              IF chosen = <<>> THEN ShowsError("No NOUNS match your filters", << SummaryOfSelection >>)
              ELSE targets.kind = "sentences" /\ placed # <<>>

\* C18 witness: three sentences asked for; the first slot drew `sip` and got `cup`,
\* the second drew `STOP`, which has no suggestion, with the noun pool empty: the
\* third slot was never attempted and the one sentence was laid out.
C18_Witness ==
    /\ passPc = "done" /\ sceneType = "sentence" /\ nSentences = 3
    /\ C18_NounsError
    /\ Len(chosen) = 1 /\ C18_SlotsAttempted = 2
    /\ targets.kind = "sentences" /\ Len(placed) = 1

----------------------------------------------------------------------------
(* Claims about the image loads of a pass                                  *)

C20_AllLoadsSettled == \A src \in ImagePaths : imageCache[src] # "pending"

C20_FinalList == targets.kind \in {"targets", "sentences"}

C20_ListedAfterLoads ==
    (passPc \in PassPcs /\ C20_FinalList) =>
        /\ passPc = "done"
        /\ C20_AllLoadsSettled
        /\ \A k \in 1..Len(tasks) : tasks[k].pc = "done"
        /\ Len(targets.items) = Len(placed)
        /\ sceneType # "sentence" =>
              /\ Len(tasks) = Len(placed)
              /\ \A k \in 1..Len(tasks) :
                    /\ targets.items[k].word = tasks[k].item.word
                    /\ \E c \in 1..Len(surface) :
                          /\ surface[c].role = "item" /\ surface[c].rect = tasks[k].rect
                          /\ surface[c].op = (IF tasks[k].img = "image" THEN "image" ELSE "block")
        /\ sceneType = "sentence" =>
              /\ Len(C16_Painted("verb")) = Len(placed)
              /\ Len(C16_Painted("object")) = Len(placed)

C20_ListWrittenAfterLoads ==
    (passPc \in PassPcs /\ targets' # targets /\ targets'.kind \in {"targets", "sentences"}) =>
        /\ C20_AllLoadsSettled
        /\ \A k \in 1..Len(tasks) : tasks[k].pc = "done"
        /\ imageCache' = imageCache

\* a failed load leaves the pass running
C20_FailureKeepsPass ==
    (passPc \in PassPcs /\ \E src \in ImagePaths : imageCache[src] = "pending" /\ imageCache'[src] = "null") =>
        /\ passPc' = passPc
        /\ targets' = targets /\ errorModal' = errorModal
        /\ placed' = placed /\ drawnTargets' = drawnTargets /\ chosen' = chosen

\* C20: a pass writes its final target list only after every image load it issued
\* for its scene items has resolved, by success or by failure (placeholder); a
\* failed load never aborts the pass, and the item is still listed.
C20_FinishAfterAllLoads ==
    /\ []C20_ListedAfterLoads
    /\ [][C20_ListWrittenAfterLoads /\ C20_FailureKeepsPass]_vars

\* C20 witness: a gallery pass has listed its two items after both loads resolved,
\* the first by failure: that item is painted as a placeholder block and listed.
C20_Witness ==
    /\ passPc = "done" /\ sceneType = "i-spy" /\ targets.kind = "targets"
    /\ Len(tasks) = 2 /\ Len(targets.items) = 2
    /\ tasks[1].promise # "" /\ tasks[1].img = "null"
    /\ tasks[2].promise # "" /\ tasks[2].img = "image"
    /\ surface[Len(surface)].word = tasks[1].item.word
    /\ surface[Len(surface)].op = "block"

----------------------------------------------------------------------------
(* Claims about image loads that stay pending, and about passes that meet  *)

\* the loads issued and not settled
C21_PendingPaths == { src \in ImagePaths : imageCache[src] = "pending" }

\* the pass waits and nothing but the settling of a pending load can move it on:
\* this is the state it stays in for as long as that load hangs
C21_Stalled ==
    /\ passPc \in {"awaitAll", "awaitVerb", "awaitObject"}
    /\ ~ContinuationQueued
    /\ C21_PendingPaths # {}

C21_FindSpotCalls == Cardinality({ k \in 1..Len(trace) : trace[k] = "findSpot" })

C21_PaintedAt(role, rect) ==
    \E c \in 1..Len(surface) : surface[c].role = role /\ surface[c].rect = rect

\* gallery: every drawItem whose own load has settled has painted its item
C21_GalleryOthersPainted ==
    (C21_Stalled /\ sceneType \in GalleryTypes) =>
        /\ C21_FindSpotCalls = Len(chosen)
        /\ Len(tasks) = Len(placed)
        /\ \A k \in 1..Len(tasks) :
              tasks[k].promise \notin C21_PendingPaths =>
                  /\ tasks[k].pc = "done"
                  /\ C21_PaintedAt("item", tasks[k].rect)

\* sentence mode: every group has been through findSpot, and every group placed
\* before the one whose load hangs has its three cells painted
C21_SentenceOthersPainted ==
    (C21_Stalled /\ sceneType = "sentence") =>
        /\ C21_FindSpotCalls = Len(chosen)
        /\ \A k \in 1..(Len(placed) - 1) :
              LET cells == SentenceCells(placed[k], sentenceBlockMetrics(nSentences)) IN
              /\ C21_PaintedAt("character", cells.character)
              /\ C21_PaintedAt("verb", cells.verb)
              /\ C21_PaintedAt("object", cells.object)

\* C21: if one scene item's image load never resolves, only that item's visual is
\* stalled: in gallery and in sentence mode every other item or group of the pass
\* is still placed and painted once its own loads resolve.
C21_HungLoadStallsOnlyItsItem ==
    C21_GalleryOthersPainted /\ C21_SentenceOthersPainted

\* a step in which generate() is called while a pass waits for its images
C22_CalledAgain ==
    passPc \in {"awaitAll", "awaitVerb", "awaitObject"} /\ passPc' = "start"

\* the call leaves the waiting pass as it is, its awaits and its loads included,
\* wipes the canvas and starts the new pass with lists of its own
C22_NotCancelled ==
    C22_CalledAgain =>
        /\ earlier'.passPc = passPc
        /\ earlier'.tasks = tasks /\ earlier'.placed = placed
        /\ earlier'.chosen = chosen /\ earlier'.pos = pos
        /\ imageCache' = imageCache /\ loads' = loads
        /\ surface' = << Paint("fill", "background", <<>>, Rect(0, 0, CANVAS_W, CANVAS_H)) >>
        /\ placed' = <<>> /\ tasks' = <<>> /\ drawnTargets' = <<>>

\* whatever is on the canvas was painted after the last fill
C22_ClearsBeforePaint ==
    passPc \in (PassPcs \ {"generate"}) =>
        /\ surface # <<>>
        /\ surface[1].op = "fill"
        /\ \A c \in 2..Len(surface) : surface[c].op # "fill"

C22_PairwiseClear(list) ==
    \A a \in 1..Len(list), b \in 1..Len(list) :
        a # b => ~rectsOverlap(list[a], list[b], OVERLAP_PAD)

C22_Prefix(a, b) == Len(a) <= Len(b) /\ SubSeq(b, 1, Len(a)) = a

\* each pass has a placed list of its own, clear of overlap within itself
C22_OwnPlacedClear ==
    passPc \in PassPcs => C22_PairwiseClear(placed) /\ C22_PairwiseClear(earlier.placed)

\* a step of one pass leaves the other pass's list alone, and a list only grows
C22_OwnPlacedStep ==
    (passPc \in PassPcs /\ earlier # NoEarlier) =>
        /\ earlier' # NoEarlier
        /\ C22_Prefix(placed, placed') /\ C22_Prefix(earlier.placed, earlier'.placed)
        /\ placed' = placed \/ earlier'.placed = earlier.placed
        /\ \A k \in 1..Len(earlier.tasks) :
              /\ earlier'.tasks[k].item = earlier.tasks[k].item
              /\ earlier'.tasks[k].rect = earlier.tasks[k].rect
              /\ earlier.tasks[k].pc = "done" => earlier'.tasks[k].pc = "done"

\* C22: when generate() is called while an earlier pass still has image loads
\* pending, the earlier pass is not cancelled; each pass clears the surface before
\* its own first paint and keeps its own placed list. A paint of the earlier pass
\* can land after the later pass's clear (C22_Witness), so the surface can show
\* items of both passes.
C22_PassesNotCancelled ==
    /\ []C22_ClearsBeforePaint
    /\ []C22_OwnPlacedClear
    /\ [][C22_NotCancelled /\ C22_OwnPlacedStep]_vars

\* C22 witness: an i-spy pass waits for the picture of its noun; generate() is
\* called again for an actions scene, which wipes the canvas and paints its verb;
\* then the picture arrives and the earlier pass paints its noun on the same canvas,
\* here over the verb of the later pass.
C22_Witness ==
    /\ earlier.sceneType = "i-spy" /\ sceneType = "actions"
    /\ Len(earlier.tasks) = 1 /\ Len(tasks) = 1
    /\ Len(surface) = 3 /\ surface[1].op = "fill"
    /\ surface[2].word = tasks[1].item.word /\ surface[2].rect = tasks[1].rect
    /\ surface[3].word = earlier.tasks[1].item.word /\ surface[3].rect = earlier.tasks[1].rect
    /\ surface[3].op = "image"
    /\ surface[2].word # surface[3].word
    /\ rectsOverlap(surface[2].rect, surface[3].rect, OVERLAP_PAD)

----------------------------------------------------------------------------
(* Claims about the usage log                                              *)

\* the groups a pass has finished: placed, both cells painted, record written.
\* While a sentence pass waits for an image its last placed group is unfinished.
C23_GroupsFinished(type, pc, list) ==
    IF type # "sentence" THEN 0
    ELSE IF pc = "done" THEN Len(list)
    ELSE IF pc \in {"awaitVerb", "awaitObject"} THEN Len(list) - 1
    ELSE 0

\* one record per finished group of a sentence pass, none for anything else
C23_OneRecordPerGroup ==
    passPc \in PassPcs =>
        Len(usageLog) = C23_GroupsFinished(sceneType, passPc, placed)
                         + C23_GroupsFinished(earlier.sceneType, earlier.passPc, earlier.placed)

C23_Record(n, sentence) ==
    [mode |-> <<"sentence", n>>, verb |-> sentence.verb.word, noun |-> sentence.object.word]

\* the step leaves an object cell painted at rect
C23_PaintedNext(rect) ==
    \E c \in 1..Len(surface') : surface'[c].role = "object" /\ surface'[c].rect = rect

\* a step that changes the log appends one record: that of the group a sentence
\* pass has just painted the object cell of, which is a group that got a spot
C23_AppendsPlacedGroup ==
    (passPc \in PassPcs /\ usageLog' # usageLog) =>
        /\ usageLog' = Append(usageLog, usageLog'[Len(usageLog')])
        /\ \/ /\ sceneType = "sentence" /\ passPc = "awaitObject"
              /\ earlier' = earlier
              /\ usageLog'[Len(usageLog')] = C23_Record(nSentences, chosen[pos])
              /\ Len(placed) >= 1
              /\ C23_PaintedNext(SentenceCells(placed[Len(placed)],
                                                sentenceBlockMetrics(nSentences)).object)
           \/ /\ earlier.sceneType = "sentence" /\ earlier.passPc = "awaitObject"
              /\ placed' = placed /\ passPc' = passPc
              /\ usageLog'[Len(usageLog')] = C23_Record(earlier.nSentences, earlier.chosen[earlier.pos])
              /\ Len(earlier.placed) >= 1
              /\ C23_PaintedNext(SentenceCells(earlier.placed[Len(earlier.placed)],
                                                sentenceBlockMetrics(earlier.nSentences)).object)

\* no record is removed or rewritten
C23_KeepsRecords ==
    passPc \in PassPcs => C22_Prefix(usageLog, usageLog')

\* C23: the usage log is append-only and a sentence pass appends exactly one
\* record per successfully placed group, carrying that group's verb and object
\* words and the mode; groups that fail to place, passes that abort and gallery
\* passes append nothing, and no existing record is ever removed or rewritten,
\* including when passes interleave.
C23_LogAppendOnly ==
    /\ []C23_OneRecordPerGroup
    /\ [][C23_AppendsPlacedGroup /\ C23_KeepsRecords]_vars

\* C23 witness: a pass of two sentences waits for the picture of its first verb;
\* a pass of one sentence started meanwhile writes its record; then the earlier
\* pass writes the record of its first group behind it, and its second group finds
\* no spot and writes none.
C23_Witness ==
    /\ earlier.sceneType = "sentence" /\ earlier.passPc = "done"
    /\ sceneType = "sentence" /\ passPc = "done"
    /\ Len(earlier.chosen) = 2 /\ Len(earlier.placed) = 1
    /\ Len(chosen) = 1 /\ Len(placed) = 1
    /\ usageLog = << C23_Record(1, chosen[1]), C23_Record(2, earlier.chosen[1]) >>

----------------------------------------------------------------------------
(* Claims about the layout of a sentence group                             *)

C24_Tier(n) == IF n <= 2 THEN 520 ELSE IF n <= 4 THEN 420 ELSE 320

\* the cells of the group placed at spot: character, verb, object
C24_Cells(spot, n) ==
    LET cells == SentenceCells(spot, sentenceBlockMetrics(n))
    IN  << cells.character, cells.verb, cells.object >>

C24_Inside(a, box) ==
    /\ box.x <= a.x /\ a.x + a.w <= box.x + box.w
    /\ box.y <= a.y /\ a.y + a.h <= box.y + box.h

C24_InsideMargins(a) ==
    /\ SENTENCE_MARGIN <= a.x /\ a.x + a.w <= CANVAS_W - SENTENCE_MARGIN
    /\ SENTENCE_MARGIN <= a.y /\ a.y + a.h <= CANVAS_H - SENTENCE_MARGIN

\* the cell size by the count asked for, through the clamp of line 705
C24_SizeByCount ==
    \A c \in 1..MAX_SENTENCES :
        /\ sentenceBlockMetrics(sentenceCount(c)).W = C24_Tier(c)
        /\ sentenceBlockMetrics(sentenceCount(c)).H = C24_Tier(c)

C24_GroupLaidOut(k) ==
    LET m == sentenceBlockMetrics(nSentences)
        cells == C24_Cells(placed[k], nSentences)
        box == Rect(placed[k].x, placed[k].y, 3 * m.W + m.gapCharVerb + m.gapVerbObj, m.H)
    IN  /\ placed[k] = box
        /\ \A c \in 1..3 :
              /\ cells[c].w = C24_Tier(nSentences) /\ cells[c].h = C24_Tier(nSentences)
              /\ cells[c].y = placed[k].y
              /\ C24_Inside(cells[c], box)
              /\ C24_InsideMargins(cells[c])
        /\ cells[1].x = placed[k].x
        /\ cells[1].x + cells[1].w < cells[2].x
        /\ cells[2].x + cells[2].w < cells[3].x
        /\ cells[3].x + cells[3].w = box.x + box.w
        /\ \A c \in 1..3, d \in 1..3 : c # d => ~rectsOverlap(cells[c], cells[d], 0)
        /\ \A j \in 1..Len(placed) :
              j # k => \A c \in 1..3, d \in 1..3 :
                          ~rectsOverlap(cells[c], C24_Cells(placed[j], nSentences)[d], 0)

\* C24: for every requested sentence count the cell size is 520 for counts <= 2,
\* 420 for counts 3..4 and 320 for counts 5..6, and for every placed group the
\* three equal-size cells (character, verb, object) sit left to right at the
\* group's y, do not overlap one another, and lie entirely inside the group's
\* bounding box of width 3W + gapCharVerb + gapVerbObj and height H, hence inside
\* the canvas margins and clear of every other group's cells.
C24_CellsLaidOut ==
    (sceneType = "sentence" /\ passPc # "none") =>
        /\ C24_SizeByCount
        /\ sentenceBlockMetrics(nSentences).W = C24_Tier(nSentences)
        /\ \A k \in 1..Len(placed) : C24_GroupLaidOut(k)

\* C24 witness: a pass of six sentences has placed two groups of 320-pixel cells
\* side by side, the second one pixel past the padded reach of the first.
C24_Witness ==
    /\ sceneType = "sentence" /\ nSentences = 6
    /\ Len(placed) = 2
    /\ placed[1].y = placed[2].y
    /\ placed[2].x = placed[1].x + placed[1].w + OVERLAP_PAD + 1
    /\ C24_Cells(placed[1], nSentences)[3].w = 320

\* sentence passes paint exactly the cells of C24_Cells, group by group
C24_PaintedCells ==
    (sceneType = "sentence" /\ passPc = "done" /\ earlier = NoEarlier) =>
        LET IsCell(p) == p.role \in {"character", "verb", "object"}
            painted == SelectSeq(surface, IsCell)
        IN  /\ Len(painted) = 3 * Len(placed)
            /\ \A k \in 1..Len(placed), c \in 1..3 :
                  painted[3 * (k - 1) + c].rect = C24_Cells(placed[k], nSentences)[c]

----------------------------------------------------------------------------
(* Claims about the first item of a pass                                   *)

\* the sizes findSpot can be called with for the first item of the pass
C25_FirstSizes ==
    IF sceneType = "sentence"
    THEN { << groupSize(sentenceBlockMetrics(nSentences)).Gw,
              groupSize(sentenceBlockMetrics(nSentences)).Gh >> }
    ELSE GalleryWidths(chosen[1].kind) \X GalleryHeights(chosen[1].kind)

C25_Margin == IF sceneType = "sentence" THEN SENTENCE_MARGIN ELSE GALLERY_MARGIN
C25_Tries == IF sceneType = "sentence" THEN PassTries(SENTENCE_TRIES) ELSE PassTries(GALLERY_TRIES)

\* the first item fits the usable extent, every candidate drawn for it on the
\* empty placed list is accepted, and findSpot cannot return null for it
C25_FirstFits ==
    (passPc \in PassPcs /\ chosen # <<>>) =>
        \A wh \in C25_FirstSizes :
            /\ wh[1] <= CANVAS_W - 2 * C25_Margin
            /\ wh[2] <= CANVAS_H - 2 * C25_Margin
            /\ ~FindSpotDegenerate(wh[1], wh[2], C25_Margin)
            /\ FindSpotDrawX(wh[1], C25_Margin, <<>>) # {}
            /\ FindSpotDrawY(wh[2], C25_Margin, <<>>) # {}
            /\ \A x \in FindSpotDrawX(wh[1], C25_Margin, <<>>),
                  y \in FindSpotDrawY(wh[2], C25_Margin, <<>>) :
                  FindSpotAccepts(Rect(x, y, wh[1], wh[2]), <<>>)
            /\ NULL \notin findSpot(wh[1], wh[2], <<>>, C25_Margin, C25_Tries)

\* once the placement loop has run, the first of the placed is the first chosen
C25_FirstPlaced ==
    (passPc \in {"awaitAll", "awaitVerb", "awaitObject", "done"} /\ chosen # <<>>) =>
        /\ placed # <<>>
        /\ sceneType \in GalleryTypes =>
              /\ tasks # <<>> /\ tasks[1].item = chosen[1].item
              /\ tasks[1].rect.x = placed[1].x /\ tasks[1].rect.y = placed[1].y
              /\ drawnTargets[1].word = chosen[1].item.word
        /\ sceneType = "sentence" =>
              /\ C21_PaintedAt("character",
                    SentenceCells(placed[1], sentenceBlockMetrics(nSentences)).character)
              /\ C16_Painted("verb") # <<>> => C16_Painted("verb")[1] = chosen[1].verb.word
              /\ C16_Painted("object") # <<>> => C16_Painted("object")[1] = chosen[1].object.word

C25_NoFitNeverShown ==
    passPc \in PassPcs => targets.text # "Couldn't fit any sentences."

\* C25: in any pass whose selection (gallery) or accepted sentence list (sentence
\* mode) is non-empty, the first item or group is always placed: its size never
\* exceeds the usable canvas extent and the placed list is empty, so findSpot
\* succeeds on its first candidate. So at least one item is placed and the
\* sentence-mode "Couldn't fit any sentences" outcome is unreachable.
C25_FirstItemAlwaysPlaced ==
    C25_FirstFits /\ C25_FirstPlaced /\ C25_NoFitNeverShown

\* C25 witness: a sentence pass with two accepted sentences has ended with the
\* first group placed and listed, the second having found no spot.
C25_Witness ==
    /\ passPc = "done" /\ sceneType = "sentence"
    /\ Len(chosen) = 2 /\ Len(placed) = 1
    /\ targets.kind = "sentences" /\ Len(targets.items) = 1
    /\ C16_Painted("verb") = << chosen[1].verb.word >>

\* step by step: the call of findSpot for the first item returns the first
\* candidate it draws
C25_FirstCandidate ==
    (passPc = "placing" /\ pos = 1 /\ fs.pc = "done") =>
        /\ fs.ret # NULL
        /\ fs.drawn = 1 /\ fs.i = 0
        /\ fs.ret = fs.candidate

====
